---- MODULE Spec2Model ----
(***************************************************************************)
(* A model of mcpweaver's ReasoningEngine (src/mcpweaver/reasoning_engine) *)
(* as a state machine: the engine's loaded configuration, the requests one *)
(* call of reason_about_query sends to the Model Backend, and the value    *)
(* the call returns (or the exception it raises).                          *)
(* Further specifications over the same variables model the fuzzy matcher, *)
(* the loading of a configuration, generate_json_schema,                   *)
(* GenericMCPServer.execute_tool and LLMClient.process_query.               *)
(*                                                                         *)
(* Representation.                                                         *)
(*   - A Python str whose characters matter (a tool name, a prose word) is *)
(*     a sequence of character codes (ASCII), so that lower(), `in` and    *)
(*     min/max behave as they do in Python.  A str whose characters never  *)
(*     matter (a rationale, an error text) is an opaque TLA+ string.       *)
(*   - A JSON value is a record tagged by k: null, bool, num, str, list,   *)
(*     obj.  A JSON number n is kept in tenths (0.8 is JNum(8)).  A JSON   *)
(*     object, like a Python dict, is a function from keys to values.      *)
(*   - The text a backend returns is a sequence of tokens: a markdown      *)
(*     fence, the tag json, a newline, a prose word, or a serialized JSON  *)
(*     document.  json.loads succeeds exactly on a single JSON document.   *)
(***************************************************************************)
EXTENDS Integers, Sequences, FiniteSets, TLC

VARIABLES
    config,     \* engine.config: the mapping the engine reads on every call
    loaded,     \* the mapping yaml.safe_load returned at construction
    pc,         \* "idle": no call in progress; "returned": a call has ended
    call,       \* the inputs of the call that has ended
    sent,       \* the requests that call posted to the Model Backend, in order
    outcome     \* what the call produced: a returned Plan or a raised exception

vars == <<config, loaded, pc, call, sent, outcome>>

-----------------------------------------------------------------------------
(* Bounds of the model *)

\* the longest step list a generated response carries
MaxSteps == 2

\* the longest candidate name given to the fuzzy matcher
MaxNameLen == 3

\* the longest list of known names given to the fuzzy matcher
MaxKnown == 2

\* the longest tool list given to generate_json_schema
MaxTools == 3

-----------------------------------------------------------------------------
(* Python values *)

Range(f) == {f[i] : i \in DOMAIN f}

\* Python's None and JSON's null
JNull == [k |-> "null"]
JBool(b) == [k |-> "bool", b |-> b]
\* a number, in tenths
JNum(n) == [k |-> "num", n |-> n]
\* a str as its characters
JStr(s) == [k |-> "str", s |-> s]
\* a str whose characters are never inspected
JText(t) == [k |-> "str", t |-> t]
JList(q) == [k |-> "list", items |-> q]
JObj(f) == [k |-> "obj", m |-> f]
\* a JSON object whose keys are str kept as characters: its <<key, value>>
\* pairs
JObjByName(pairs) == [k |-> "obj", byname |-> pairs]
\* {}
EmptyDict == <<>>

\* bool(v): Python truthiness
Truthy(v) ==
    CASE v.k = "null" -> FALSE
      [] v.k = "bool" -> v.b
      [] v.k = "num" -> v.n # 0
      [] v.k = "str" -> IF "s" \in DOMAIN v THEN Len(v.s) > 0 ELSE v.t # ""
      [] v.k = "list" -> Len(v.items) > 0
      [] v.k = "obj" -> DOMAIN v.m # {}

\* d.get(key, default) on a dict d
Get(d, key, default) == IF key \in DOMAIN d THEN d[key] ELSE default

\* the outcome of a computation that may raise
Ok(v) == [ok |-> TRUE, v |-> v]
Raise(e) == [ok |-> FALSE, exc |-> e]

-----------------------------------------------------------------------------
(* str operations, on sequences of character codes *)

\* str.lower(), one character
Lower(c) == IF c \in 65..90 THEN c + 32 ELSE c

\* str.lower()
LowerStr(s) == [i \in 1..Len(s) |-> Lower(s[i])]

\* a in b, for two str
IsSubstr(a, b) ==
    \E i \in 0..(Len(b) - Len(a)) : \A j \in 1..Len(a) : b[i + j] = a[j]

\* a < b, for two str: lexicographic on the character codes
StrLess(a, b) ==
    \E i \in 1..(Len(a) + 1) :
        /\ \A j \in 1..(i - 1) : j <= Len(b) /\ a[j] = b[j]
        /\ \/ i > Len(a) /\ i <= Len(b)
           \/ i <= Len(a) /\ i <= Len(b) /\ a[i] < b[i]

\* min(a, b) and max(a, b) on two str: the first argument unless the second
\* is strictly smaller (larger)
PyMin(a, b) == IF StrLess(b, a) THEN b ELSE a
PyMax(a, b) == IF StrLess(a, b) THEN b ELSE a

\* sum(1 for c in shorter if c in longer)
CommonChars(shorter, longer) ==
    Cardinality({i \in 1..Len(shorter) :
                    \E j \in 1..Len(longer) : longer[j] = shorter[i]})

SetMin(S) == CHOOSE i \in S : \A j \in S : i <= j
SetMax(S) == CHOOSE i \in S : \A j \in S : i >= j

-----------------------------------------------------------------------------
(* ReasoningEngine._find_best_tool_match *)

\* threshold: float = 0.6, as the fraction ThresholdNum / ThresholdDen
ThresholdNum == 6
ThresholdDen == 10

\* the similarity of tool_name to one available name, as a fraction num / den
Score(tool_name, available_name) ==
    LET shorter == PyMin(tool_name, available_name)
        longer == PyMax(tool_name, available_name)
    IN  IF Len(longer) = 0
        THEN [num |-> 1, den |-> 1]
        ELSE [num |-> CommonChars(shorter, longer), den |-> Len(longer)]

\* the similarity loop from available_tool_names[i] on; best is
\* [match, num, den]: best_match and best_score so far
RECURSIVE SimilarityScan(_, _, _, _)
SimilarityScan(tool_name, names, i, best) ==
    IF i > Len(names)
    THEN best.match
    ELSE LET sc == Score(tool_name, names[i])
             better == /\ sc.num * best.den > best.num * sc.den
                       /\ sc.num * ThresholdDen >= ThresholdNum * sc.den
         IN  SimilarityScan(tool_name, names, i + 1,
                 IF better
                 THEN [match |-> JStr(names[i]), num |-> sc.num, den |-> sc.den]
                 ELSE best)

\* tool_name in available_tool_names, tool_name any value, names a list of str
NameIn(tool_name, names) ==
    /\ tool_name.k = "str"
    /\ "s" \in DOMAIN tool_name
    /\ \E i \in 1..Len(names) : names[i] = tool_name.s

\* the available names that contain tool_name, or are contained in it,
\* ignoring case
PartialMatches(s, names) ==
    {i \in 1..Len(names) :
        \/ IsSubstr(LowerStr(s), LowerStr(names[i]))
        \/ IsSubstr(LowerStr(names[i]), LowerStr(s))}

\* _find_best_tool_match with a fault: the similarity scan runs before the
\* partial matches are tried
FindBestToolMatchSimilarityFirst(tool_name, names) ==
    IF ~Truthy(tool_name) \/ Len(names) = 0 THEN Ok(JNull)
    ELSE IF NameIn(tool_name, names) THEN Ok(tool_name)
    ELSE IF tool_name.k # "str" THEN Raise("AttributeError")
    ELSE LET best == SimilarityScan(tool_name.s, names, 1,
                                    [match |-> JNull, num |-> 0, den |-> 1])
         IN  IF best # JNull THEN Ok(best)
             ELSE IF PartialMatches(tool_name.s, names) # {}
                  THEN Ok(JStr(names[SetMin(PartialMatches(tool_name.s, names))]))
                  ELSE Ok(JNull)

\* the result of the matcher: Ok(a name), Ok(None),
\* or the AttributeError of tool_name.lower() on a value that is no str
_find_best_tool_match(tool_name, names) ==
    IF ~Truthy(tool_name) \/ Len(names) = 0 THEN Ok(JNull)
    ELSE IF NameIn(tool_name, names) THEN Ok(tool_name)
    ELSE IF tool_name.k # "str" THEN Raise("AttributeError")
    ELSE IF PartialMatches(tool_name.s, names) # {}
         THEN Ok(JStr(names[SetMin(PartialMatches(tool_name.s, names))]))
    ELSE Ok(SimilarityScan(tool_name.s, names, 1,
                           [match |-> JNull, num |-> 0, den |-> 1]))

-----------------------------------------------------------------------------
(* Response text: a sequence of tokens *)

\* ```
Fence == [tk |-> "fence"]
\* a newline
NL == [tk |-> "nl"]
\* a word of prose
Word(w) == [tk |-> "word", w |-> w]
\* the text of one serialized JSON document
Doc(v) == [tk |-> "doc", v |-> v]
\* the word json
JsonTag == Word(<<106, 115, 111, 110>>)

\* str.strip()
Strip(t) ==
    LET keep == {i \in 1..Len(t) : t[i] # NL}
    IN  IF keep = {} THEN <<>> ELSE SubSeq(t, SetMin(keep), SetMax(keep))

\* the content of the first ```(json)? ... ```
\* block, stripped; without a block, the text stripped
_extract_json_from_markdown(t) ==
    LET fences == {i \in 1..Len(t) : t[i] = Fence}
    IN  IF Cardinality(fences) < 2
        THEN Strip(t)
        ELSE LET open == SetMin(fences)
                 close == SetMin(fences \ {open})
                 from == IF open + 1 < close /\ t[open + 1] = JsonTag
                         THEN open + 2 ELSE open + 1
             IN  Strip(SubSeq(t, from, close - 1))

\* json.loads(text): the document when the text is exactly one JSON document
JsonLoads(t) ==
    IF Len(t) = 1 /\ t[1].tk = "doc" THEN Ok(t[1].v) ELSE Raise("JSONDecodeError")

\* the str values inside a JSON value whose characters the model keeps
RECURSIVE DocStrings(_)
DocStrings(v) ==
    CASE v.k = "str" -> IF "s" \in DOMAIN v THEN {v.s} ELSE {}
      [] v.k = "list" -> UNION {DocStrings(v.items[i]) : i \in DOMAIN v.items}
      [] v.k = "obj" /\ "m" \in DOMAIN v ->
             UNION {DocStrings(v.m[key]) : key \in DOMAIN v.m}
      [] v.k = "obj" /\ "byname" \in DOMAIN v ->
             UNION {{v.byname[i][1]} \cup DocStrings(v.byname[i][2]) :
                        i \in DOMAIN v.byname}
      [] OTHER -> {}

\* text.split('\n')
RECURSIVE SplitLines(_)
SplitLines(t) ==
    LET nls == {i \in 1..Len(t) : t[i] = NL}
    IN  IF nls = {} THEN <<t>>
        ELSE <<SubSeq(t, 1, SetMin(nls) - 1)>>
             \o SplitLines(SubSeq(t, SetMin(nls) + 1, Len(t)))

\* tool_name in line, line a line of text_response.lower(): the name occurs
\* in a lowercased word, or in a lowercased str of a JSON document
NameInLine(name, line) ==
    \E i \in 1..Len(line) :
        \/ line[i].tk = "word" /\ IsSubstr(name, LowerStr(line[i].w))
        \/ line[i].tk = "doc"
           /\ \E s \in DocStrings(line[i].v) : IsSubstr(name, LowerStr(s))

\* re.findall(r'\[([^\]]+)\]', text) finds something in the text of a JSON
\* value: the value holds a non-empty list
RECURSIVE HasArray(_)
HasArray(v) ==
    CASE v.k = "list" -> Len(v.items) > 0
      [] v.k = "obj" /\ "m" \in DOMAIN v ->
             \E key \in DOMAIN v.m : HasArray(v.m[key])
      [] v.k = "obj" /\ "byname" \in DOMAIN v ->
             \E i \in DOMAIN v.byname : HasArray(v.byname[i][2])
      [] OTHER -> FALSE

\* {'a': the first [...] of the line}, or {}.
\* The array's value is kept opaque: no caller reads it.
_extract_arguments_from_text(line) ==
    IF \E i \in 1..Len(line) : line[i].tk = "doc" /\ HasArray(line[i].v)
    THEN JObj([a |-> JText("array")])
    ELSE JObj(EmptyDict)

\* the actions _parse_text_response collects from the lines, one per line
\* that names a tool: the first tool, in tool order, the line names
RECURSIVE TextActions(_, _)
TextActions(lines, names) ==
    IF lines = <<>> THEN <<>>
    ELSE LET line == Head(lines)
             hits == {i \in 1..Len(names) : NameInLine(names[i], line)}
         IN  (IF hits = {} THEN <<>>
              ELSE <<JObj([tool |-> JStr(names[SetMin(hits)]),
                           arguments |-> _extract_arguments_from_text(line)])>>)
             \o TextActions(Tail(lines), names)

\* a str holding raw response text
RawStr(t) == [k |-> "str", raw |-> t]

\* the dict the text fallback builds from the response text
_parse_text_response(t, names) ==
    LET actions == TextActions(SplitLines(t), names)
    IN  IF actions # <<>>
        THEN JObj([MyActionPlan |-> JList(actions), reasoning |-> RawStr(t),
                   confidence |-> JNum(8)])
        ELSE JObj([actions |-> JList(<<>>), reasoning |-> RawStr(t),
                   confidence |-> JNum(0)])

-----------------------------------------------------------------------------
(* The shape dispatch of reason_about_query: from the parsed response to the
   returned Plan *)

\* llm_json.get('confidence', 0.8), in tenths
DefaultConfidence == 8

\* a step of a returned plan: {'tool': .., 'arguments': .., 'why': ..}
Step(tool, arguments, why) ==
    JObj([tool |-> tool, arguments |-> arguments, why |-> why])

\* f'Step {i} from legacy format'
StepWhy(i) == [k |-> "str", t |-> "Step {i} from legacy format", i |-> i]

\* key in v: dict membership, list membership, substring of a str (an opaque
\* str contains the key only when it is the key), TypeError otherwise
KeyIn(key, v) ==
    CASE v.k = "obj" -> Ok(key \in DOMAIN v.m)
      [] v.k = "list" -> Ok(\E i \in 1..Len(v.items) : v.items[i] = JText(key))
      [] v.k = "str" -> Ok("t" \in DOMAIN v /\ v.t = key)
      [] OTHER -> Raise("TypeError")

\* the dict elements `for step in v: if isinstance(step, dict)` visits:
\* iterating a dict or a str yields str, never a dict; None, a number and a
\* bool are not iterable
DictElements(v) ==
    CASE v.k = "list" -> Ok(SelectSeq(v.items, LAMBDA e : e.k = "obj"))
      [] v.k \in {"obj", "str"} -> Ok(<<>>)
      [] OTHER -> Raise("TypeError")

\* one step of the `plan` branch: kept, corrected by the fuzzy matcher, or
\* dropped
ValidateStep(step, names) ==
    LET tool_name == Get(step.m, "tool", JStr(<<>>))
        arguments == Get(step.m, "arguments", JObj(EmptyDict))
        why == Get(step.m, "why", JText(""))
    IN  IF NameIn(tool_name, names)
        THEN Ok(<<Step(tool_name, arguments, why)>>)
        ELSE LET best_match == _find_best_tool_match(tool_name, names)
             IN  IF ~best_match.ok THEN best_match
                 ELSE IF Truthy(best_match.v)
                      THEN Ok(<<Step(best_match.v, arguments, why)>>)
                      ELSE Ok(<<>>)

\* validated_plan, from the dict elements of the response's plan
RECURSIVE ValidatePlan(_, _)
ValidatePlan(steps, names) ==
    IF steps = <<>> THEN Ok(<<>>)
    ELSE LET first == ValidateStep(Head(steps), names)
         IN  IF ~first.ok THEN first
             ELSE LET rest == ValidatePlan(Tail(steps), names)
                  IN  IF ~rest.ok THEN rest ELSE Ok(first.v \o rest.v)

\* the branch `if 'plan' in llm_json`
PlanBranch(llm_json, names) ==
    IF llm_json.k # "obj" THEN Raise("AttributeError")
    ELSE LET plan == Get(llm_json.m, "plan", JList(<<>>))
             confidence == Get(llm_json.m, "confidence", JNum(DefaultConfidence))
             steps == DictElements(plan)
         IN  IF ~steps.ok THEN steps
             ELSE LET validated_plan == ValidatePlan(steps.v, names)
                  IN  IF ~validated_plan.ok THEN validated_plan
                      ELSE Ok([plan |-> JList(validated_plan.v),
                               confidence |-> confidence])

\* one action of the `actions` branch as a step: the tool name is taken as is
ConvertAction(action) ==
    Step(Get(action.m, "tool", JStr(<<>>)),
         Get(action.m, "arguments", JObj(EmptyDict)),
         JText("Converted from legacy format"))

\* the branch `elif 'actions' in llm_json`
ActionsBranch(llm_json) ==
    IF llm_json.k # "obj" THEN Raise("AttributeError")
    ELSE LET actions == Get(llm_json.m, "actions", JList(<<>>))
             confidence == Get(llm_json.m, "confidence", JNum(DefaultConfidence))
             dicts == DictElements(actions)
         IN  IF ~dicts.ok THEN dicts
             ELSE Ok([plan |-> JList([i \in 1..Len(dicts.v) |->
                                          ConvertAction(dicts.v[i])]),
                      confidence |-> confidence])

\* the steps the loop `for i in range(1, 4)` appends from action{i} on
RECURSIVE NumberedSteps(_, _)
NumberedSteps(m, i) ==
    IF i > 3 THEN <<>>
    ELSE LET action_key == CASE i = 1 -> "action1" [] i = 2 -> "action2"
                             [] OTHER -> "action3"
             here ==
                 IF action_key \notin DOMAIN m THEN <<>>
                 ELSE LET action_data == m[action_key]
                      IN  IF action_data.k # "obj" THEN <<>>
                          ELSE LET tool_name ==
                                       Get(action_data.m, "tool", JStr(<<>>))
                               IN  IF Truthy(tool_name)
                                   THEN <<Step(tool_name,
                                               Get(action_data.m, "arguments",
                                                   JObj(EmptyDict)),
                                               StepWhy(i))>>
                                   ELSE <<>>
         IN  here \o NumberedSteps(m, i + 1)

\* the branch `elif 'action1' in llm_json`
NumberedBranch(llm_json) ==
    IF llm_json.k # "obj" THEN Raise("AttributeError")
    ELSE Ok([plan |-> JList(NumberedSteps(llm_json.m, 1)),
             confidence |-> Get(llm_json.m, "confidence",
                                JNum(DefaultConfidence))])

\* lines 187-276: the action_plan built from llm_json, or the exception the
\* dispatch raises
Dispatch(llm_json, names) ==
    LET in_plan == KeyIn("plan", llm_json)
    IN  IF ~in_plan.ok THEN in_plan
        ELSE IF in_plan.v THEN PlanBranch(llm_json, names)
        ELSE IF KeyIn("actions", llm_json).v THEN ActionsBranch(llm_json)
        ELSE IF KeyIn("action1", llm_json).v THEN NumberedBranch(llm_json)
        ELSE Ok([plan |-> JList(<<>>), confidence |-> JNum(0)])

-----------------------------------------------------------------------------
(* The Model Backend's answers, as requests.post delivers them *)

\* requests.post raised (a timeout, a refused connection)
Transport(exc) == [kind |-> "raise", exc |-> exc]
\* an HTTP response: its status code and its body
Http(status, body) == [kind |-> "http", status |-> status, body |-> body]
\* a body that is no JSON: response.json() raises
NotJsonBody == [b |-> "notjson"]
\* a body that is the JSON value v
JsonBody(v) == [b |-> "json", v |-> v]
\* the usual body, {"response": text}
TextBody(t) == JsonBody(JObj([response |-> RawStr(t)]))

\* response.json().get('response', '').strip(), or what it raises
ResponseText(body) ==
    IF body.b = "notjson" THEN Raise("JSONDecodeError")
    ELSE IF body.v.k # "obj" THEN Raise("AttributeError")
    ELSE LET r == Get(body.v.m, "response", RawStr(<<>>))
         IN  IF r.k = "str" /\ "raw" \in DOMAIN r
             THEN Ok(Strip(r.raw))
             ELSE Raise("AttributeError")

\* the capability probe, given the backend's answer to the probe request
_test_json_support(probe) ==
    /\ probe.kind = "http"
    /\ probe.status = 200
    /\ ResponseText(probe.body).ok
    /\ JsonLoads(ResponseText(probe.body).v).ok

\* simple_schema of _test_json_support
SimpleSchema ==
    JObj([type |-> JText("object"),
          properties |-> JObj([test |-> JObj([type |-> JText("string")])]),
          required |-> JList(<<JText("test")>>)])

\* test_payload of _test_json_support
ProbePayload(model) ==
    [model |-> model, prompt |-> "Respond with a simple JSON", stream |-> FALSE,
     type |-> "json_schema", options |-> [json_schema |-> SimpleSchema]]

-----------------------------------------------------------------------------
(* Prompt templates and str.format *)

\* literal text of a template
Lit(text) == [p |-> "lit", text |-> text]
\* a replacement field {name}
Field(name) == [p |-> "field", name |-> name]

\* template.format(**kwargs): KeyError on a field kwargs does not name
Format(template, kwargs) ==
    IF \E i \in 1..Len(template) :
           template[i].p = "field" /\ template[i].name \notin DOMAIN kwargs
    THEN Raise("KeyError")
    ELSE Ok([i \in 1..Len(template) |->
                IF template[i].p = "field"
                THEN [p |-> "value", v |-> kwargs[template[i].name]]
                ELSE template[i]])

\* the default of reasoning.system_prompt_template
DefaultSystemTemplate ==
    <<Lit("You are an AI assistant that creates step-based execution plans"),
      Field("tools"), Lit("Your task is to create an ordered plan")>>

\* the default of reasoning.user_prompt_template
DefaultUserTemplate == <<Lit("User query: "), Field("query")>>

\* tool_info: one description per tool
ToolInfo(available_tools) ==
    [i \in 1..Len(available_tools) |->
        [desc |-> "- {tool_name}: {description}",
         tool_name |-> available_tools[i].name]]

\* the default of llm.options in reason_about_query
DefaultOptions == [temperature |-> JNum(0), top_p |-> JNum(10)]

\* d[key] = value on a dict d
SetKey(d, key, value) ==
    [x \in DOMAIN d \cup {key} |-> IF x = key THEN value ELSE d[x]]

-----------------------------------------------------------------------------
(* reason_about_query *)

\* ErrorPlan with a fault: the error return keeps the default confidence
ErrorPlanDefaultConfidence(error) ==
    [plan |-> JList(<<>>), confidence |-> JNum(DefaultConfidence), error |-> error]

\* the three error returns
ErrorPlan(error) == [plan |-> JList(<<>>), confidence |-> JNum(0), error |-> error]

\* lines 174-185: the parsed response, or the exception parsing raises
ParseResponse(llm_response, use_schema, names) ==
    IF use_schema
    THEN JsonLoads(Strip(_extract_json_from_markdown(llm_response)))
    ELSE Ok(_parse_text_response(llm_response, names))

\* lines 282-292: the plan the repair returns, or Raise when it returns none
Repair(llm_response) ==
    LET cleaned_response == _extract_json_from_markdown(llm_response)
        llm_json == JsonLoads(Strip(cleaned_response))
    IN  IF /\ cleaned_response # llm_response
           /\ llm_json.ok
           /\ llm_json.v.k = "obj"
           /\ "plan" \in DOMAIN llm_json.v.m
        THEN Ok([plan |-> Get(llm_json.v.m, "plan", JList(<<>>)),
                 confidence |-> Get(llm_json.v.m, "confidence", JNum(0))])
        ELSE Raise("no repair")

\* lines 173-294: what the call returns for a 200 answer with this text
Handle200(llm_response, use_schema, names) ==
    LET llm_json == ParseResponse(llm_response, use_schema, names)
        action_plan == IF llm_json.ok THEN Dispatch(llm_json.v, names) ELSE llm_json
    IN  IF action_plan.ok THEN action_plan.v
        ELSE IF Repair(llm_response).ok THEN Repair(llm_response).v
        ELSE ErrorPlan([msg |-> "Failed to parse response: ", e |-> action_plan.exc])

\* HandleAnswer with a fault: the status code is not checked
HandleAnswerAnyStatus(answer, use_schema, names) ==
    IF answer.kind = "raise"
    THEN ErrorPlan([msg |-> "Error calling LLM: ", e |-> answer.exc])
    ELSE LET llm_response == ResponseText(answer.body)
         IN  IF llm_response.ok
             THEN Handle200(llm_response.v, use_schema, names)
             ELSE ErrorPlan([msg |-> "Error calling LLM: ", e |-> llm_response.exc])

\* lines 164-302: what the call returns for the backend's answer to the
\* reasoning request
HandleAnswer(answer, use_schema, names) ==
    IF answer.kind = "raise"
    THEN ErrorPlan([msg |-> "Error calling LLM: ", e |-> answer.exc])
    ELSE IF answer.status = 200
    THEN LET llm_response == ResponseText(answer.body)
         IN  IF llm_response.ok
             THEN Handle200(llm_response.v, use_schema, names)
             ELSE ErrorPlan([msg |-> "Error calling LLM: ", e |-> llm_response.exc])
    ELSE ErrorPlan([msg |-> "LLM API error: ", status |-> answer.status])

-----------------------------------------------------------------------------
(* The configurations an engine is constructed from *)

\* the llm section, with or without its options mapping
LlmSection(has_options) ==
    IF has_options
    THEN [model |-> "phi3:mini",
          options |-> [temperature |-> JNum(1), top_p |-> JNum(9)]]
    ELSE [model |-> "phi3:mini"]

\* a reasoning section that sets no template
NoTemplates == [json_extraction_regex |-> "\\{.*\\}"]

\* the templates of the test suite's sample_config
PlainTemplates ==
    [system_prompt_template |->
         <<Lit("You are an AI assistant. Available tools:"), Field("tools")>>,
     user_prompt_template |-> <<Lit("User query: "), Field("query")>>]

\* a system template that shows the answer format as a literal JSON object:
\* str.format reads {"plan": ...} as a replacement field
JsonExampleTemplates ==
    [system_prompt_template |->
         <<Lit("Available tools:"), Field("tools"), Lit("Answer as "),
           Field("\"plan\"")>>,
     user_prompt_template |-> <<Lit("User query: "), Field("query")>>]

\* a user template that also names {tools}
UserNamesTools ==
    [system_prompt_template |-> <<Lit("Available tools:"), Field("tools")>>,
     user_prompt_template |-> <<Field("tools"), Field("query")>>]

\* a json_schema section of a configuration
ConfigSchema ==
    JObj([type |-> JText("object"),
          required |-> JList(<<JText("plan"), JText("confidence")>>)])

MkConfig(has_options, has_schema, reasoning) ==
    IF has_schema
    THEN [llm |-> LlmSection(has_options), reasoning |-> reasoning,
          json_schema |-> ConfigSchema]
    ELSE [llm |-> LlmSection(has_options), reasoning |-> reasoning]

\* the configurations the model constructs engines from
Configs ==
    {MkConfig(o, s, PlainTemplates) : o \in BOOLEAN, s \in BOOLEAN}
    \cup {MkConfig(TRUE, TRUE, r) :
              r \in {NoTemplates, JsonExampleTemplates, UserNamesTools}}

-----------------------------------------------------------------------------
(* The inputs of a call: query, tools, and what the backend answers *)

\* tool names: "mean", "std"
mean == <<109, 101, 97, 110>>
std == <<115, 116, 100>>
\* names a model may answer with: "Mean", "sdt", "xyz"
MeanCapital == <<77, 101, 97, 110>>
sdt == <<115, 100, 116>>
xyz == <<120, 121, 122>>

Tool(name) == [name |-> name, description |-> "a tool"]

ToolLists == {<<>>, <<Tool(mean)>>, <<Tool(mean), Tool(std)>>}

Queries == {"Calculate the mean of [1,2,3]"}

\* what _generate_context finds: nothing, or a context text
Contexts == {"", "Tool relationships"}

SeqsUpTo(S, n) == UNION {[1..len -> S] : len \in 0..n}

\* arguments objects
ArgsA == JObj([a |-> JList(<<JNum(10), JNum(20)>>)])
ArgsB == JObj([a |-> JList(<<JNum(30)>>), axis |-> JNum(0)])

\* what a response step carries under `tool`
ToolValues == {JStr(mean), JStr(MeanCapital), JStr(sdt), JStr(xyz), JNum(50)}

\* the elements of a response's step list
StepValues ==
    {Step(t, ArgsA, JText("because")) : t \in ToolValues}
    \cup {Step(JStr(std), ArgsB, JText("")), JObj([tool |-> JStr(mean)]),
          JNum(70)}

\* a response's `confidence`, when it has one
ConfidenceValues == {JNum(9), JNum(15), JText("high")}

\* objects with a `plan` list
PlanDocs ==
    {JObj([plan |-> JList(p), confidence |-> JNum(9)]) :
         p \in SeqsUpTo(StepValues, MaxSteps)}
    \cup {JObj([plan |-> JList(p)]) : p \in SeqsUpTo(StepValues, MaxSteps)}
    \cup {JObj([plan |-> JList(p), confidence |-> c]) :
              p \in SeqsUpTo(StepValues, 1), c \in ConfidenceValues}

\* objects whose `plan` is no list
PlanNotListDocs ==
    {JObj([plan |-> v, confidence |-> JNum(9)]) :
         v \in {JNum(50), JNull, JText("none"), Step(JStr(mean), ArgsA, JText(""))}}

ActionValues ==
    {JObj([tool |-> JStr(mean), arguments |-> ArgsA]),
     JObj([tool |-> JStr(xyz), arguments |-> ArgsB]), JNum(70)}

\* objects with an `actions` list
ActionsDocs ==
    {JObj([actions |-> JList(p), confidence |-> JNum(7)]) :
         p \in SeqsUpTo(ActionValues, MaxSteps)}
    \cup {JObj([actions |-> JList(p)]) : p \in SeqsUpTo(ActionValues, 1)}
    \cup {JObj([plan |-> JNum(50), actions |-> JList(p)]) :
              p \in SeqsUpTo(ActionValues, 1)}

\* objects with action1 .. action3 keys
NumberedDocs ==
    UNION {{JObj(f), JObj(SetKey(f, "confidence", JNum(7)))} :
               f \in UNION {[keys -> {JObj([tool |-> JStr(mean), arguments |-> ArgsA]), JObj([tool |-> JStr(xyz), arguments |-> ArgsB])}] :
                               keys \in (SUBSET {"action1", "action2", "action3"})
                                            \ {{}}}}

\* the legacy shape: `tools` (names) and `arguments` (by name)
LegacyDocs ==
    {JObj([tools |-> JList(<<JStr(mean), JStr(std)>>),
           arguments |-> JObjByName(<<<<mean, ArgsA>>, <<std, ArgsB>>>>),
           reasoning |-> JText("central tendency and spread"),
           confidence |-> JNum(9)]),
     JObj([tools |-> JList(<<JStr(std)>>),
           arguments |-> JObjByName(<<<<std, ArgsA>>>>),
           reasoning |-> JText("spread"),
           confidence |-> JNum(7)])}

\* a bare list of steps
BareListDocs ==
    {JList(<<>>),
     JList(<<JObj([tool |-> JStr(mean), arguments |-> ArgsA])>>),
     JList(<<JObj([name |-> JStr(std), arguments |-> ArgsB])>>),
     JList(<<JText("plan")>>)}

\* JSON of no recognised shape
OtherDocs ==
    {JObj(EmptyDict), JObj([answer |-> JText("42")]), JNum(50), JNull,
     JBool(TRUE), JText("plan"), JText("hello")}

\* the JSON documents a response may carry
Docs ==
    PlanDocs \cup PlanNotListDocs \cup ActionsDocs \cup NumberedDocs
    \cup LegacyDocs \cup BareListDocs \cup OtherDocs

\* prose words: "use", "the", "Mean", "mean"
WordUse == <<117, 115, 101>>
WordThe == <<116, 104, 101>>

\* J alone
Bare(v) == <<Doc(v)>>
\* J in a ``` block
Fenced(v) == <<Fence, NL, Doc(v), NL, Fence>>
\* J in a ```json block
FencedJson(v) == <<Fence, JsonTag, NL, Doc(v), NL, Fence>>

\* responses that are no JSON document, fenced or not
ProseTexts ==
    {<<>>,
     <<Word(WordUse), Word(WordThe)>>,
     <<Word(WordUse), Word(mean), NL, Word(WordThe), Word(std)>>,
     <<Word(WordUse), Word(MeanCapital), Doc(JList(<<JNum(10)>>))>>,
     <<Fence, NL, Word(WordUse), Word(WordThe), NL, Fence>>,
     <<Fence, NL, Doc(JObj([plan |-> JList(<<>>)]))>>,
     <<Word(WordUse), Doc(JObj([plan |-> JList(<<>>), confidence |-> JNum(9)])),
       Word(WordThe)>>}

\* the texts a backend answers the reasoning request with
Texts ==
    {Bare(v) : v \in Docs} \cup {Fenced(v) : v \in Docs}
    \cup {FencedJson(v) : v \in Docs} \cup ProseTexts

\* the backend's answers to the reasoning request
Answers ==
    {Http(200, TextBody(t)) : t \in Texts}
    \cup {Http(s, NotJsonBody) : s \in {200, 404, 500}}
    \cup {Http(200, JsonBody(v)) :
              v \in {JObj(EmptyDict), JList(<<>>), JObj([response |-> JNull])}}
    \cup {Http(500, TextBody(Bare(JObj([plan |-> JList(<<>>)]))))}
    \cup {Transport("Timeout"), Transport("ConnectionError")}

\* the backend's answers to the capability probe
ProbeAnswers ==
    {Http(200, TextBody(Bare(JObj([test |-> JText("hello")])))),
     Http(200, TextBody(<<Word(WordUse), Word(WordThe)>>)),
     Http(500, NotJsonBody),
     Transport("Timeout")}

-----------------------------------------------------------------------------
(* The state machine *)

NoCall == [query |-> "none"]
NoOutcome == [kind |-> "none"]
Returned(plan) == [kind |-> "returned", value |-> plan]
Raised(exc) == [kind |-> "raised", exc |-> exc]

\* ReasoningEngine.__init__: the configuration is loaded once
Init ==
    /\ config \in Configs
    /\ loaded = config
    /\ pc = "idle"
    /\ call = NoCall
    /\ sent = <<>>
    /\ outcome = NoOutcome

\* lines 139-144: json_schema is set when the probe found JSON support and
\* the configuration has a non-empty json_schema
UsesSchema(cfg, probe) ==
    _test_json_support(probe) /\ Truthy(Get(cfg, "json_schema", JObj(EmptyDict)))

\* available_tool_names
ToolNames(available_tools) ==
    [i \in 1..Len(available_tools) |-> available_tools[i].name]

\* one call of the entry point, with what _generate_context
\* finds and what the backend answers to the probe and to the request
reason_about_query(query, available_tools, context, probe, answer) ==
    /\ pc' = "returned"
    /\ loaded' = loaded
    /\ LET reasoning == Get(config, "reasoning", EmptyDict)
           system_prompt_template ==
               Get(reasoning, "system_prompt_template", DefaultSystemTemplate)
           user_prompt_template ==
               Get(reasoning, "user_prompt_template", DefaultUserTemplate)
           base_prompt ==
               Format(system_prompt_template, [tools |-> ToolInfo(available_tools)])
           user_prompt == Format(user_prompt_template, [query |-> query])
       IN  IF ~base_prompt.ok \/ ~user_prompt.ok
           THEN \* str.format raised before the try block: nothing is sent
                /\ outcome' = Raised(IF ~base_prompt.ok THEN base_prompt.exc
                                     ELSE user_prompt.exc)
                /\ call' = [query |-> query, tools |-> available_tools,
                            context |-> context]
                /\ sent' = <<>>
                /\ config' = config
           ELSE LET system_prompt ==
                        IF context # ""
                        THEN base_prompt.v \o <<Lit("Context:"), Lit(context)>>
                        ELSE base_prompt.v
                    llm_config == Get(config, "llm", EmptyDict)
                    model == Get(llm_config, "model", "phi3:mini")
                    options == Get(llm_config, "options", DefaultOptions)
                    use_schema == UsesSchema(config, probe)
                    base_schema == Get(config, "json_schema", JObj(EmptyDict))
                    \* payload["options"] is the dict `options` itself
                    sent_options ==
                        IF use_schema
                        THEN SetKey(options, "json_schema", base_schema)
                        ELSE options
                    payload ==
                        IF use_schema
                        THEN [model |-> model,
                              prompt |-> system_prompt \o user_prompt.v,
                              stream |-> FALSE, options |-> sent_options,
                              type |-> "json_schema"]
                        ELSE [model |-> model,
                              prompt |-> system_prompt \o user_prompt.v,
                              stream |-> FALSE, options |-> sent_options]
                IN  /\ call' = [query |-> query, tools |-> available_tools,
                                context |-> context, probe |-> probe,
                                answer |-> answer]
                    /\ sent' = <<ProbePayload(model), payload>>
                    \* llm_config['options'], when present, is that same dict
                    /\ config' =
                           IF use_schema /\ "options" \in DOMAIN llm_config
                           THEN [config EXCEPT !.llm.options = sent_options]
                           ELSE config
                    /\ outcome' =
                           Returned(HandleAnswer(answer, use_schema,
                                                 ToolNames(available_tools)))

\* the caller takes the returned Plan (or handles the exception); the engine
\* is ready for the next call
CallerTakesPlan ==
    /\ pc = "returned"
    /\ pc' = "idle"
    /\ call' = NoCall
    /\ sent' = <<>>
    /\ outcome' = NoOutcome
    /\ UNCHANGED <<config, loaded>>

\* a caller calls reason_about_query on the idle engine
Call ==
    /\ pc = "idle"
    /\ \E query \in Queries, available_tools \in ToolLists, context \in Contexts,
          probe \in ProbeAnswers, answer \in Answers :
           reason_about_query(query, available_tools, context, probe, answer)

Next == Call \/ CallerTakesPlan

Spec == Init /\ [][Next]_vars

-----------------------------------------------------------------------------
(* Vocabulary of the claims *)

\* a call has ended by returning a value
HasReturned == pc = "returned" /\ outcome.kind = "returned"

\* the backend answered the reasoning request 200 with a body {"response": text}
AnsweredWithText ==
    /\ HasReturned
    /\ call.answer.kind = "http"
    /\ call.answer.status = 200
    /\ call.answer.body.b = "json"
    /\ call.answer.body.v.k = "obj"
    /\ "response" \in DOMAIN call.answer.body.v.m
    /\ "raw" \in DOMAIN call.answer.body.v.m.response

\* that text
AnswerText == call.answer.body.v.m.response.raw

\* the names of the tools passed to the call
CallToolNames == [i \in 1..Len(call.tools) |-> call.tools[i].name]

\* a step {tool, arguments, why} whose tool is a known name
IsCanonicalStep(st, names) ==
    /\ st.k = "obj"
    /\ DOMAIN st.m = {"tool", "arguments", "why"}
    /\ st.m.tool.k = "str"
    /\ \E i \in 1..Len(names) : st.m.tool = JStr(names[i])

\* a canonical object {plan: [steps], confidence: c}
IsCanonicalDoc(v, names) ==
    /\ v.k = "obj"
    /\ DOMAIN v.m = {"plan", "confidence"}
    /\ v.m.plan.k = "list"
    /\ \A i \in 1..Len(v.m.plan.items) : IsCanonicalStep(v.m.plan.items[i], names)
    /\ v.m.confidence.k = "num"

\* the text is one JSON document and nothing else
IsBareDoc(t) == Len(t) = 1 /\ t[1].tk = "doc"

\* the text is one JSON document in a ``` or ```json block
IsFencedDoc(t) ==
    \/ Len(t) = 5 /\ t[3].tk = "doc" /\ t = Fenced(t[3].v)
    \/ Len(t) = 6 /\ t[4].tk = "doc" /\ t = FencedJson(t[4].v)

\* the document of such a text
FencedDocOf(t) == IF Len(t) = 5 THEN t[3].v ELSE t[4].v

\* the text is prose: words and line breaks only, at least one word
IsProse(t) ==
    /\ \A i \in 1..Len(t) : t[i].tk \in {"word", "nl"}
    /\ \E i \in 1..Len(t) : t[i].tk = "word"

\* two Plans with the same steps, confidence and error presence
SamePlan(a, b) ==
    /\ a.plan = b.plan
    /\ a.confidence = b.confidence
    /\ ("error" \in DOMAIN a) <=> ("error" \in DOMAIN b)

\* the legacy shape: tools is a list of known names, arguments maps each
IsLegacyDoc(v, names) ==
    /\ v.k = "obj"
    /\ {"tools", "arguments", "reasoning", "confidence"} \subseteq DOMAIN v.m
    /\ v.m.tools.k = "list"
    /\ "byname" \in DOMAIN v.m.arguments
    /\ \A i \in 1..Len(v.m.tools.items) :
           /\ \E j \in 1..Len(names) : v.m.tools.items[i] = JStr(names[j])
           /\ \E j \in 1..Len(v.m.arguments.byname) :
                  v.m.arguments.byname[j][1] = v.m.tools.items[i].s

\* arguments[name] in a by-name object
ByName(obj, name) ==
    obj.byname[CHOOSE j \in 1..Len(obj.byname) : obj.byname[j][1] = name][2]

-----------------------------------------------------------------------------
(* Claims *)

\* C1: reason_about_query never raises: every call ends by returning a Plan
\* mapping with `plan` and `confidence`, whatever the query, the tools, the
\* configured templates and the backend's behaviour.
C1_NeverRaises ==
    pc = "returned" =>
        /\ outcome.kind = "returned"
        /\ {"plan", "confidence"} \subseteq DOMAIN outcome.value

\* C2: a returned Plan that carries `error` has the empty plan and
\* confidence 0.0, on every exit path.
C2_ErrorImpliesEmptyPlan ==
    (HasReturned /\ "error" \in DOMAIN outcome.value) =>
        /\ outcome.value.plan = JList(<<>>)
        /\ outcome.value.confidence = JNum(0)

\* a call whose response could not be parsed has returned an error Plan
C2_Witness ==
    /\ AnsweredWithText
    /\ "error" \in DOMAIN outcome.value
    /\ outcome.value.error.msg = "Failed to parse response: "

\* C3: round trip: a canonical {plan, confidence} response whose steps all
\* name known tools is returned as it is: same steps, same confidence, no
\* error, whatever the configuration and the probe's outcome.
C3_RoundTrip ==
    (AnsweredWithText /\ IsBareDoc(AnswerText)
     /\ IsCanonicalDoc(AnswerText[1].v, CallToolNames)) =>
        outcome.value = [plan |-> AnswerText[1].v.m.plan,
                         confidence |-> AnswerText[1].v.m.confidence]

\* C4: every step of a returned Plan names one of the tools passed to the
\* call.
C4_ToolsKnown ==
    HasReturned =>
        /\ outcome.value.plan.k = "list"
        /\ \A i \in 1..Len(outcome.value.plan.items) :
               LET st == outcome.value.plan.items[i]
               IN  /\ st.k = "obj"
                   /\ "tool" \in DOMAIN st.m
                   /\ st.m.tool.k = "str"
                   /\ \E j \in 1..Len(CallToolNames) :
                          st.m.tool = JStr(CallToolNames[j])

\* C5: a call that returns has sent exactly one request to the backend.
C5_OneRequest == HasReturned => Len(sent) = 1

\* C6: the engine's configuration is the mapping loaded at construction,
\* after any sequence of calls.
C6_ConfigUnchanged == config = loaded

\* C7: a legacy {tools, arguments, reasoning, confidence} response yields one
\* step per name in `tools`, in order, with arguments[name], why = reasoning,
\* and the response's confidence.
C7_LegacyToolsArguments ==
    (AnsweredWithText /\ IsBareDoc(AnswerText)
     /\ IsLegacyDoc(AnswerText[1].v, CallToolNames)) =>
        LET doc == AnswerText[1].v.m
        IN  /\ outcome.value.plan.k = "list"
            /\ Len(outcome.value.plan.items) = Len(doc.tools.items)
            /\ \A i \in 1..Len(doc.tools.items) :
                   outcome.value.plan.items[i] =
                       Step(doc.tools.items[i],
                            ByName(doc.arguments, doc.tools.items[i].s),
                            doc.reasoning)
            /\ outcome.value.confidence = doc.confidence

\* C8: a response that is J in a ``` or ```json block yields the same Plan
\* (steps, confidence, error presence) as the response J alone.
C8_MarkdownEquivalence ==
    (AnsweredWithText /\ IsFencedDoc(AnswerText)) =>
        SamePlan(outcome.value,
                 HandleAnswer(Http(200, TextBody(Bare(FencedDocOf(AnswerText)))),
                              UsesSchema(config, call.probe), CallToolNames))

\* C9: a 200 answer whose text is prose returns the empty plan, confidence 0.0
\* and an error that starts 'Failed to parse response'.
C9_ProseIsParseError ==
    (AnsweredWithText /\ IsProse(AnswerText)) =>
        /\ "error" \in DOMAIN outcome.value
        /\ outcome.value.error.msg = "Failed to parse response: "
        /\ outcome.value.plan = JList(<<>>)
        /\ outcome.value.confidence = JNum(0)

\* C10: a non-200 answer with status s returns
\* {plan: [], confidence: 0.0, error: 'LLM API error: s'}.
C10_Non200IsApiError ==
    (HasReturned /\ call.answer.kind = "http" /\ call.answer.status # 200) =>
        outcome.value =
            [plan |-> JList(<<>>), confidence |-> JNum(0),
             error |-> [msg |-> "LLM API error: ", status |-> call.answer.status]]

\* a call answered 500 with a well-formed body has returned
C10_Witness ==
    /\ HasReturned
    /\ call.answer.kind = "http"
    /\ call.answer.status = 500
    /\ call.answer.body.b = "json"
    /\ "error" \in DOMAIN outcome.value

-----------------------------------------------------------------------------
(* The fuzzy matcher on its own: _find_best_tool_match applied to a candidate
   name and a list of known names *)

\* the characters of the names: A, a, b, z
NameChars == {65, 97, 98, 122}

\* candidate names
Candidates == SeqsUpTo(NameChars, MaxNameLen)

\* known names: "ab", "Ab", "ba", "zab", "abzbbb"
KnownNames ==
    {<<97, 98>>, <<65, 98>>, <<98, 97>>, <<122, 97, 98>>,
     <<97, 98, 122, 98, 98, 98>>}

\* lists of known names
KnownLists == SeqsUpTo(KnownNames, MaxKnown)

\* an engine, and the arguments of one call of the matcher
MatchInit ==
    /\ config = MkConfig(TRUE, TRUE, PlainTemplates)
    /\ loaded = config
    /\ pc = "idle"
    /\ call \in {[tool_name |-> JStr(c), available_tool_names |-> k] :
                     c \in Candidates, k \in KnownLists}
    /\ sent = <<>>
    /\ outcome = NoOutcome

\* engine._find_best_tool_match(tool_name, available_tool_names)
MatchTool ==
    /\ pc = "idle"
    /\ pc' = "returned"
    /\ LET r == _find_best_tool_match(call.tool_name, call.available_tool_names)
       IN  outcome' = IF r.ok THEN Returned(r.v) ELSE Raised(r.exc)
    /\ UNCHANGED <<config, loaded, call, sent>>

MatchNext == MatchTool

MatchSpec == MatchInit /\ [][MatchNext]_vars

\* the matcher has returned
Matched == pc = "returned" /\ outcome.kind = "returned"

\* the value is None or one of the names
NullOrKnown(v, names) ==
    v = JNull \/ \E i \in 1..Len(names) : v = JStr(names[i])

\* name a contains name b, or b contains a, ignoring case
Overlaps(a, b) ==
    IsSubstr(LowerStr(a), LowerStr(b)) \/ IsSubstr(LowerStr(b), LowerStr(a))

\* the first name, in list order, that overlaps the candidate
FirstOverlap(c, names) ==
    names[SetMin({i \in 1..Len(names) : Overlaps(c, names[i])})]

\* C11 as stated: the matcher returns the candidate whenever it is a known
\* name; otherwise the first known name, in list order, that contains the
\* candidate or is contained in it ignoring case; and what it returns is
\* always null or a known name.
C11_StagePrecedence ==
    Matched =>
        LET c == call.tool_name.s
            names == call.available_tool_names
        IN  /\ NullOrKnown(outcome.value, names)
            /\ (\E i \in 1..Len(names) : names[i] = c) => outcome.value = JStr(c)
            /\ ((\A i \in 1..Len(names) : names[i] # c)
                /\ (\E i \in 1..Len(names) : Overlaps(c, names[i])))
               => outcome.value = JStr(FirstOverlap(c, names))

\* C11, amended: the same for a non-empty candidate; for the empty candidate
\* the matcher returns null, whatever the known names.
C11_StagePrecedenceNonEmpty ==
    Matched =>
        LET c == call.tool_name.s
            names == call.available_tool_names
        IN  /\ NullOrKnown(outcome.value, names)
            /\ c = <<>> => outcome.value = JNull
            /\ (c # <<>> /\ \E i \in 1..Len(names) : names[i] = c)
               => outcome.value = JStr(c)
            /\ (c # <<>>
                /\ (\A i \in 1..Len(names) : names[i] # c)
                /\ (\E i \in 1..Len(names) : Overlaps(c, names[i])))
               => outcome.value = JStr(FirstOverlap(c, names))

\* the candidate "ab" against <<"zab", "ba">>: "zab" contains it, the later
\* name "ba" has the higher similarity score, and the matcher has returned
C11_Witness ==
    /\ Matched
    /\ call.tool_name = JStr(<<97, 98>>)
    /\ call.available_tool_names = <<<<122, 97, 98>>, <<98, 97>>>>
    /\ outcome.value = JStr(<<122, 97, 98>>)

\* the scores the length rule allows for a candidate and a known name: the
\* characters of the shorter string, by length, that occur in the longer
\* one, over the length of the longer one; with equal lengths either string
\* may be taken as the shorter
LengthScores(c, n) ==
    (IF Len(c) <= Len(n)
     THEN {[num |-> CommonChars(c, n), den |-> Len(n)]} ELSE {})
    \cup (IF Len(n) <= Len(c)
          THEN {[num |-> CommonChars(n, c), den |-> Len(c)]} ELSE {})

\* the name with the highest score among the scores sc that reach the
\* threshold, the earliest on ties; null when none reaches it
BestByScore(names, sc) ==
    LET eligible == {i \in 1..Len(names) :
                        sc[i].num * ThresholdDen >= ThresholdNum * sc[i].den}
        best == {i \in eligible :
                    \A j \in eligible :
                        sc[i].num * sc[j].den >= sc[j].num * sc[i].den}
    IN  IF eligible = {} THEN JNull ELSE JStr(names[SetMin(best)])

\* v is what the length rule selects for the candidate c
LengthRuleSelects(c, names, v) ==
    \E sc \in [1..Len(names) ->
                  UNION {LengthScores(c, names[i]) : i \in 1..Len(names)}] :
        /\ \A i \in 1..Len(names) : sc[i] \in LengthScores(c, names[i])
        /\ v = BestByScore(names, sc)

\* C12: for a candidate with no exact and no substring match, the matcher
\* returns the known name whose score (characters of the shorter string, by
\* length, found in the longer one, over the longer one's length) is highest
\* among those >= 0.6, the earliest on ties, and null when none reaches 0.6.
C12_SimilarityByLength ==
    (/\ Matched
     /\ call.tool_name.s # <<>>
     /\ call.available_tool_names # <<>>
     /\ \A i \in 1..Len(call.available_tool_names) :
            ~Overlaps(call.tool_name.s, call.available_tool_names[i]))
    => LengthRuleSelects(call.tool_name.s, call.available_tool_names,
                         outcome.value)

-----------------------------------------------------------------------------
(* Claims about the returned Plan, continued *)

\* C13: the confidence of every returned Plan is a number in [0.0, 1.0],
\* whatever the response carried as confidence.
C13_ConfidenceInRange ==
    HasReturned =>
        /\ outcome.value.confidence.k = "num"
        /\ outcome.value.confidence.n >= 0
        /\ outcome.value.confidence.n <= 10

-----------------------------------------------------------------------------
(* Loading and validating a configuration: ReasoningEngine.__init__ and
   utils.validate_reasoning_config / utils.load_reasoning_config *)

\* a Python int (a JSON number written without a fraction)
PyInt(n) == [k |-> "int", n |-> n]

\* str(n) of an int n >= 0: its decimal digits
RECURSIVE Digits(_)
Digits(n) == IF n < 10 THEN <<48 + n>> ELSE Digits(n \div 10) \o <<48 + (n % 10)>>

\* str(version) for an int, a bool or a str
PyStr(v) ==
    CASE v.k = "int" -> Digits(v.n)
      [] v.k = "bool" -> IF v.b THEN <<84, 114, 117, 101>>
                         ELSE <<70, 97, 108, 115, 101>>
      [] v.k = "str" -> v.s

\* s.split(".")[0]
FirstComponent(s) ==
    LET dots == {i \in 1..Len(s) : s[i] = 46}
    IN  IF dots = {} THEN s ELSE SubSeq(s, 1, SetMin(dots) - 1)

\* the value of a string of decimal digits
RECURSIVE DigitsValue(_)
DigitsValue(s) ==
    IF s = <<>> THEN 0
    ELSE 10 * DigitsValue(SubSeq(s, 1, Len(s) - 1)) + (s[Len(s)] - 48)

\* int(s): ValueError unless s is a string of decimal digits
ParseInt(s) ==
    IF s # <<>> /\ \A i \in 1..Len(s) : s[i] \in 48..57
    THEN Ok(DigitsValue(s))
    ELSE Raise("ValueError")

\* supported_major = 1
SupportedMajor == 1

\* validate_reasoning_config(config): Ok(None), or the ValueError it raises
validate_reasoning_config(cfg) ==
    IF "llm" \notin DOMAIN cfg
    THEN Raise("Missing required config section: llm")
    ELSE IF "reasoning" \notin DOMAIN cfg
    THEN Raise("Missing required config section: reasoning")
    ELSE LET version == Get(cfg, "version", JNull)
         IN  IF version = JNull THEN Ok(JNull)
             ELSE IF version.k \notin {"int", "bool", "str"}
             THEN Raise("version must be int or string")
             ELSE LET major == ParseInt(FirstComponent(PyStr(version)))
                      \* the body of the try block
                      tried ==
                          IF ~major.ok THEN major
                          ELSE IF major.v > SupportedMajor
                          THEN Raise("Config version not supported")
                          ELSE Ok(JNull)
                  \* `except Exception: pass` catches what the body raises,
                  \* the ValueError of an unsupported major included
                  IN  IF tried.ok THEN Ok(JNull) ELSE Ok(JNull)

\* the file at config_path does not exist
MissingFile == [file |-> "missing"]

\* isinstance(config, dict) for what yaml.safe_load returns
IsMapping(c) == "k" \notin DOMAIN c /\ "file" \notin DOMAIN c

\* load_reasoning_config(config_path), content what the file holds
load_reasoning_config(content) ==
    IF content = MissingFile THEN Raise("FileNotFoundError")
    ELSE IF ~IsMapping(content)
    THEN Raise("Configuration must be a YAML mapping")
    ELSE IF ~validate_reasoning_config(content).ok
    THEN validate_reasoning_config(content)
    ELSE Ok(content)

\* what a configuration carries under `version`: ints, a bool, floats, and
\* the strs "1", "2", "1.0", "2.0", "0.9", "10.2", "beta", "v2", ""
VersionValues ==
    {PyInt(n) : n \in 0..3} \cup {JBool(TRUE), JNum(10), JNum(20)}
    \cup {JStr(v) : v \in {<<49>>, <<50>>, <<49, 46, 48>>, <<50, 46, 48>>,
                            <<48, 46, 57>>, <<49, 48, 46, 50>>,
                            <<98, 101, 116, 97>>, <<118, 50>>, <<>>}}

\* the sections of a configuration mapping
Sections(has_llm, has_reasoning) ==
    [x \in (IF has_llm THEN {"llm"} ELSE {})
           \cup (IF has_reasoning THEN {"reasoning"} ELSE {})
           \cup {"json_schema"} |->
        CASE x = "llm" -> LlmSection(TRUE)
          [] x = "reasoning" -> PlainTemplates
          [] OTHER -> ConfigSchema]

\* what the file at config_path holds: nothing, a YAML list, or a mapping
ConfigFiles ==
    {MissingFile, JList(<<>>)}
    \cup {Sections(l, r) : l \in BOOLEAN, r \in BOOLEAN}
    \cup {SetKey(Sections(l, r), "version", v) :
              l \in BOOLEAN, r \in BOOLEAN, v \in VersionValues}

\* no engine has been constructed
NoEngine == [engine |-> "none"]

\* a configuration file, before anything reads it
ConfigInit ==
    /\ loaded \in ConfigFiles
    /\ config = NoEngine
    /\ pc = "start"
    /\ call = NoCall
    /\ sent = <<>>
    /\ outcome = NoOutcome

\* ReasoningEngine(config_path): the file is opened and parsed; what
\* yaml.safe_load returns becomes engine.config
Construct ==
    /\ pc = "start"
    /\ call' = [op |-> "ReasoningEngine"]
    /\ IF loaded = MissingFile
       THEN /\ pc' = "returned"
            /\ outcome' = Raised("FileNotFoundError")
            /\ config' = config
       ELSE /\ pc' = "idle"
            /\ outcome' = NoOutcome
            /\ config' = loaded
    /\ UNCHANGED <<loaded, sent>>

\* utils.load_reasoning_config(config_path)
LoadReasoningConfig ==
    /\ pc = "start"
    /\ pc' = "returned"
    /\ call' = [op |-> "load_reasoning_config"]
    /\ LET r == load_reasoning_config(loaded)
       IN  outcome' = IF r.ok THEN Returned(r.v) ELSE Raised(r.exc)
    /\ UNCHANGED <<config, loaded, sent>>

\* utils.validate_reasoning_config(config) on a mapping
ValidateReasoningConfig ==
    /\ pc = "start"
    /\ IsMapping(loaded)
    /\ pc' = "returned"
    /\ call' = [op |-> "validate_reasoning_config"]
    /\ LET r == validate_reasoning_config(loaded)
       IN  outcome' = IF r.ok THEN Returned(r.v) ELSE Raised(r.exc)
    /\ UNCHANGED <<config, loaded, sent>>

ConfigNext == Construct \/ LoadReasoningConfig \/ ValidateReasoningConfig

ConfigSpec == ConfigInit /\ [][ConfigNext]_vars

\* C14: an engine is constructed only from a configuration that has both the
\* `llm` and the `reasoning` section; without one of them construction fails.
C14_ConstructionNeedsSections ==
    pc = "idle" => {"llm", "reasoning"} \subseteq DOMAIN config

\* validate_reasoning_config has been called on a configuration with both
\* sections and a version
ValidatedVersion ==
    /\ pc = "returned"
    /\ call.op = "validate_reasoning_config"
    /\ {"llm", "reasoning", "version"} \subseteq DOMAIN loaded

\* the version has a numeric major component: an int, or a str whose first
\* dot-separated component is a number
HasNumericMajor(v) ==
    \/ v.k = "int"
    \/ v.k = "str" /\ ParseInt(FirstComponent(v.s)).ok

\* that component
MajorOf(v) == IF v.k = "int" THEN v.n ELSE ParseInt(FirstComponent(v.s)).v

\* C15: on a configuration with both sections, validate_reasoning_config
\* fails when the version's numeric major is greater than 1, and accepts when
\* the major is <= 1 or the version is a non-numeric string.
C15_VersionPolicy ==
    ValidatedVersion =>
        LET v == loaded.version
        IN  /\ (HasNumericMajor(v) /\ MajorOf(v) > 1) => outcome.kind = "raised"
            /\ (HasNumericMajor(v) /\ MajorOf(v) <= 1) => outcome.kind = "returned"
            /\ (v.k = "str" /\ ~HasNumericMajor(v)) => outcome.kind = "returned"

-----------------------------------------------------------------------------
(* ReasoningEngine.generate_json_schema.  A tool is a dict (a record); its
   `parameters` and an inputSchema's `properties` are dicts whose insertion
   order is kept: sequences of [name, data] and [name, schema] entries. *)

\* the keys of type_mapping, and 'Any', the default of
\* param_data.get('type', 'Any'), as characters
TypeName ==
    [string |-> <<115, 116, 114, 105, 110, 103>>,
     str |-> <<115, 116, 114>>,
     integer |-> <<105, 110, 116, 101, 103, 101, 114>>,
     int |-> <<105, 110, 116>>,
     number |-> <<110, 117, 109, 98, 101, 114>>,
     float |-> <<102, 108, 111, 97, 116>>,
     boolean |-> <<98, 111, 111, 108, 101, 97, 110>>,
     bool |-> <<98, 111, 111, 108>>,
     array |-> <<97, 114, 114, 97, 121>>,
     list |-> <<108, 105, 115, 116>>,
     object |-> <<111, 98, 106, 101, 99, 116>>,
     dict |-> <<100, 105, 99, 116>>,
     Any |-> <<65, 110, 121>>]

\* type_mapping.get(python_type.lower(), 'string'); the key 'Any' is never
\* equal to a lowercased str
_convert_python_type_to_json(python_type) ==
    LET t == LowerStr(python_type)
    IN  CASE t \in {TypeName.string, TypeName.str} -> "string"
          [] t \in {TypeName.integer, TypeName.int} -> "integer"
          [] t \in {TypeName.number, TypeName.float} -> "number"
          [] t \in {TypeName.boolean, TypeName.bool} -> "boolean"
          [] t \in {TypeName.array, TypeName.list} -> "array"
          [] t \in {TypeName.object, TypeName.dict} -> "object"
          [] OTHER -> "string"

\* 'unknown', the default of tool.get('name', 'unknown')
UnknownName == <<117, 110, 107, 110, 111, 119, 110>>

\* the names of the parameters whose `required` is true, in order
RECURSIVE RequiredParams(_)
RequiredParams(parameters) ==
    IF parameters = <<>> THEN <<>>
    ELSE (IF Get(Head(parameters).data, "required", FALSE)
          THEN <<Head(parameters).name>> ELSE <<>>)
         \o RequiredParams(Tail(parameters))

\* tool_schema synthesized from a non-empty `parameters`
SynthesizedSchema(parameters) ==
    LET properties ==
            [i \in 1..Len(parameters) |->
                [name |-> parameters[i].name,
                 schema |->
                     [type |-> _convert_python_type_to_json(
                                   Get(parameters[i].data, "type", TypeName.Any)),
                      description |-> Get(parameters[i].data, "description",
                                          "Parameter {param_name}")]]]
    IN  IF RequiredParams(parameters) # <<>>
        THEN [type |-> "object", properties |-> properties,
              required |-> RequiredParams(parameters)]
        ELSE [type |-> "object", properties |-> properties]

\* what the loop stores in tool_schemas[tool_name] for one tool
ToolSchema(tool) ==
    LET input_schema == Get(tool, "inputSchema", EmptyDict)
        parameters == Get(tool, "parameters", <<>>)
    IN  IF DOMAIN input_schema # {} /\ Get(input_schema, "type", "") = "object"
        THEN input_schema
        ELSE IF parameters # <<>>
        THEN SynthesizedSchema(parameters)
        ELSE [type |-> "object", properties |-> <<>>]

\* tool_enum
ToolEnum(available_tools) ==
    [i \in 1..Len(available_tools) |->
        Get(available_tools[i], "name", UnknownName)]

\* ToolSchemas with a fault: every name gets the schema of the last tool
ToolSchemasOfLastTool(available_tools, tool_name) ==
    ToolSchema(available_tools[Len(available_tools)])

\* tool_schemas[tool_name] after the loop: the schema stored last under
\* that name
ToolSchemas(available_tools, tool_name) ==
    ToolSchema(available_tools[
        SetMax({i \in 1..Len(available_tools) :
                   ToolEnum(available_tools)[i] = tool_name})])

\* the schema the method builds from tool_enum and tool_schemas
PlanSchema(available_tools) ==
    [type |-> "object",
     properties |->
         [plan |->
              [type |-> "array",
               items |->
                   [type |-> "object",
                    properties |->
                        [tool |-> [type |-> "string",
                                   enum |-> ToolEnum(available_tools),
                                   description |-> "Name of the tool to execute"],
                         arguments |->
                             [oneOf |->
                                  [i \in 1..Len(available_tools) |->
                                      [type |-> "object",
                                       properties |->
                                           Get(ToolSchemas(available_tools,
                                                   ToolEnum(available_tools)[i]),
                                               "properties", <<>>),
                                       required |->
                                           Get(ToolSchemas(available_tools,
                                                   ToolEnum(available_tools)[i]),
                                               "required", <<>>)]],
                              description |-> "Arguments for the tool"],
                         why |-> [type |-> "string",
                                  description |->
                                      "Explanation of why this step is needed"]],
                    required |-> <<"tool", "arguments", "why">>,
                    additionalProperties |-> FALSE],
               description |-> "Ordered list of execution steps",
               minItems |-> 1],
          confidence |->
              [type |-> "number",
               description |-> "Confidence level in the execution plan",
               minimum |-> JNum(0), maximum |-> JNum(10)]],
     required |-> <<"plan", "confidence">>,
     additionalProperties |-> FALSE]

\* generate_json_schema with a fault: no guard on the empty tool list
GenerateJsonSchemaUnguarded(available_tools) == PlanSchema(available_tools)

\* generate_json_schema(available_tools): None or the schema
generate_json_schema(available_tools) ==
    IF available_tools = <<>> THEN JNull ELSE PlanSchema(available_tools)

\* "calc", a tool name
calc == <<99, 97, 108, 99>>

\* one parameter of a `parameters` dict
Param(name, data) == [name |-> name, data |-> data]

\* one property of an inputSchema
Property(name, schema) == [name |-> name, schema |-> schema]

\* the first of the test suite's sample_tools
ToolMean ==
    [name |-> mean, description |-> "Calculate arithmetic mean",
     parameters |->
         <<Param("a", [type |-> TypeName.array, description |-> "Input array",
                       required |-> TRUE])>>]

\* parameters whose types are written "List" and "Int"; one is optional
ToolStd ==
    [name |-> std, description |-> "Calculate standard deviation",
     parameters |->
         <<Param("a", [type |-> <<76, 105, 115, 116>>, required |-> TRUE]),
           Param("axis", [type |-> <<73, 110, 116>>, required |-> FALSE,
                          default |-> JNum(0)])>>]

\* a tool with an inputSchema of type object and a `parameters` dict
ToolCalc ==
    [name |-> calc, description |-> "Perform mathematical calculations",
     inputSchema |->
         [type |-> "object",
          properties |-> <<Property("expression", [type |-> "string"])>>,
          required |-> <<"expression">>],
     parameters |->
         <<Param("precision", [type |-> TypeName.integer, required |-> TRUE])>>]

\* a tool that takes no parameters
ToolNoParams == [name |-> sdt, description |-> "a tool"]

\* an inputSchema that is not of type object; a parameter of type "ndarray"
\* and one without a type
ToolArraySchema ==
    [name |-> xyz, description |-> "a tool",
     inputSchema |-> [type |-> "array"],
     parameters |->
         <<Param("x", [type |-> <<110, 100, 97, 114, 114, 97, 121>>]),
           Param("flag", [required |-> TRUE])>>]

\* a second tool named "mean", without parameters
ToolMeanAgain == [name |-> mean, description |-> "another mean"]

\* an inputSchema of type object without properties, and a `parameters` dict
ToolObjectNoProps ==
    [name |-> MeanCapital, description |-> "a tool",
     inputSchema |-> [type |-> "object"],
     parameters |-> <<Param("a", [type |-> TypeName.array, required |-> TRUE])>>]

SchemaTools ==
    {ToolMean, ToolStd, ToolCalc, ToolNoParams, ToolArraySchema, ToolMeanAgain,
     ToolObjectNoProps}

\* an engine, and the tool list of one call of generate_json_schema
SchemaInit ==
    /\ config = MkConfig(TRUE, TRUE, PlainTemplates)
    /\ loaded = config
    /\ pc = "idle"
    /\ call \in {[available_tools |-> ts] : ts \in SeqsUpTo(SchemaTools, MaxTools)}
    /\ sent = <<>>
    /\ outcome = NoOutcome

\* engine.generate_json_schema(available_tools)
GenerateJsonSchema ==
    /\ pc = "idle"
    /\ pc' = "returned"
    /\ outcome' = Returned(generate_json_schema(call.available_tools))
    /\ UNCHANGED <<config, loaded, call, sent>>

SchemaNext == GenerateJsonSchema

SchemaSpec == SchemaInit /\ [][SchemaNext]_vars

\* generate_json_schema has returned
SchemaReturned == pc = "returned" /\ outcome.kind = "returned"

\* C16: generate_json_schema returns null exactly when the tool list is
\* empty; for a non-empty list it returns an object schema whose top level
\* requires `plan` and `confidence`.
C16_NullIffNoTools ==
    SchemaReturned =>
        /\ (outcome.value = JNull) <=> (call.available_tools = <<>>)
        /\ call.available_tools # <<>> =>
               /\ outcome.value.type = "object"
               /\ {"plan", "confidence"} \subseteq Range(outcome.value.required)
               /\ {"plan", "confidence"} \subseteq DOMAIN outcome.value.properties

\* the schema of the empty tool list has been asked for
C16_Witness ==
    SchemaReturned /\ call.available_tools = <<>> /\ outcome.value = JNull

\* the names in a sequence of [name, ...] entries
Names(entries) == [i \in 1..Len(entries) |-> entries[i].name]

\* the tool's inputSchema is present and of type object
HasObjectInputSchema(tool) ==
    /\ "inputSchema" \in DOMAIN tool
    /\ "type" \in DOMAIN tool.inputSchema
    /\ tool.inputSchema.type = "object"

\* the type table: lowercased type -> JSON type, anything else -> string
TableType(t) ==
    LET l == LowerStr(t)
        table == {<<TypeName.string, "string">>, <<TypeName.str, "string">>,
                  <<TypeName.integer, "integer">>, <<TypeName.int, "integer">>,
                  <<TypeName.number, "number">>, <<TypeName.float, "number">>,
                  <<TypeName.boolean, "boolean">>, <<TypeName.bool, "boolean">>,
                  <<TypeName.array, "array">>, <<TypeName.list, "array">>,
                  <<TypeName.object, "object">>, <<TypeName.dict, "object">>}
    IN  IF \E e \in table : e[1] = l
        THEN (CHOOSE e \in table : e[1] = l)[2]
        ELSE "string"

\* the entry one_of is the argument schema of this tool and of no other
OwnArguments(tool, one_of) ==
    IF HasObjectInputSchema(tool)
    THEN /\ one_of.properties = Get(tool.inputSchema, "properties", <<>>)
         /\ one_of.required = Get(tool.inputSchema, "required", <<>>)
    ELSE LET parameters == Get(tool, "parameters", <<>>)
         IN  /\ Names(one_of.properties) = Names(parameters)
             /\ \A j \in 1..Len(parameters) :
                    one_of.properties[j].schema.type =
                        IF "type" \in DOMAIN parameters[j].data
                        THEN TableType(parameters[j].data.type)
                        ELSE "string"
             /\ one_of.required =
                    SelectSeq(Names(parameters),
                              LAMBDA n : \E j \in 1..Len(parameters) :
                                  /\ parameters[j].name = n
                                  /\ "required" \in DOMAIN parameters[j].data
                                  /\ parameters[j].data.required)

\* the tools of the call have distinct names
UniqueNames(tools) ==
    \A i, j \in 1..Len(tools) : tools[i].name = tools[j].name => i = j

\* C17: for a non-empty list of tools with unique names, enum[i] is the i-th
\* tool's name and oneOf[i] has exactly the i-th tool's own properties and
\* required names: from its inputSchema when that is of type object,
\* otherwise from its parameters with each type mapped by the type table.
C17_SchemaFollowsInputOrder ==
    (SchemaReturned /\ call.available_tools # <<>>
     /\ UniqueNames(call.available_tools)) =>
        LET step == outcome.value.properties.plan.items.properties
            tools == call.available_tools
        IN  /\ Len(step.tool.enum) = Len(tools)
            /\ Len(step.arguments.oneOf) = Len(tools)
            /\ \A i \in 1..Len(tools) :
                   /\ step.tool.enum[i] = tools[i].name
                   /\ step.arguments.oneOf[i].type = "object"
                   /\ OwnArguments(tools[i], step.arguments.oneOf[i])

\* the schema of <<calc, std>> has been synthesized: one tool described by
\* an inputSchema, one by its parameters
C17_Witness ==
    /\ SchemaReturned
    /\ call.available_tools = <<ToolCalc, ToolStd>>
    /\ outcome.value # JNull

-----------------------------------------------------------------------------
(* Claims about the request and the returned plan *)

\* the reasoning request of the call that has ended: the last one it sent
ReasoningRequest == sent[Len(sent)]

\* C18: for a non-empty tool list, the reasoning request carries in
\* options.json_schema the schema generate_json_schema synthesizes from the
\* call's available_tools, and a JSON format flag.
C18_RequestCarriesSynthesizedSchema ==
    (HasReturned /\ call.tools # <<>>) =>
        /\ "json_schema" \in DOMAIN ReasoningRequest.options
        /\ ReasoningRequest.options.json_schema = generate_json_schema(call.tools)
        /\ {"format", "type"} \cap DOMAIN ReasoningRequest # {}

\* a response step with tool, arguments and why, whose tool is a str
IsFullStep(st) ==
    /\ st.k = "obj"
    /\ DOMAIN st.m = {"tool", "arguments", "why"}
    /\ st.m.tool.k = "str"
    /\ "s" \in DOMAIN st.m.tool

\* the response is one JSON object {plan: [full steps], confidence: c}
IsStepListDoc(t) ==
    /\ IsBareDoc(t)
    /\ t[1].v.k = "obj"
    /\ DOMAIN t[1].v.m = {"plan", "confidence"}
    /\ t[1].v.m.plan.k = "list"
    /\ \A i \in 1..Len(t[1].v.m.plan.items) : IsFullStep(t[1].v.m.plan.items[i])

\* out is obtained from the steps in by deleting steps whose tool is unknown
\* and not correctable, and by correcting tool names: f maps each returned
\* step to the response step it comes from
OnlyDeletedAndCorrected(in, out, names) ==
    \E f \in [1..Len(out) -> 1..Len(in)] :
        /\ \A j, k \in 1..Len(out) : j < k => f[j] < f[k]
        /\ \A j \in 1..Len(out) :
               /\ out[j].k = "obj"
               /\ DOMAIN out[j].m = {"tool", "arguments", "why"}
               /\ out[j].m.arguments = in[f[j]].m.arguments
               /\ out[j].m.why = in[f[j]].m.why
               /\ IF NameIn(in[f[j]].m.tool, names)
                  THEN out[j].m.tool = in[f[j]].m.tool
                  ELSE NameIn(out[j].m.tool, names)
        /\ \A i \in 1..Len(in) :
               (\A j \in 1..Len(out) : f[j] # i) =>
                   /\ ~NameIn(in[i].m.tool, names)
                   /\ _find_best_tool_match(in[i].m.tool, names) = Ok(JNull)

\* C19: for a canonical response the returned plan is the response's step
\* list with only deletions (steps whose tool is unknown and not
\* correctable) and tool-name corrections: order, arguments and why of the
\* surviving steps are kept, and no step is added.
C19_StepOrderPreserved ==
    (AnsweredWithText /\ IsStepListDoc(AnswerText)) =>
        /\ outcome.value.plan.k = "list"
        /\ OnlyDeletedAndCorrected(AnswerText[1].v.m.plan.items,
                                   outcome.value.plan.items, CallToolNames)

\* the response is one JSON object whose `plan` is not a list and whose
\* `actions` is a list of objects
IsActionsWithBadPlanDoc(t) ==
    /\ IsBareDoc(t)
    /\ t[1].v.k = "obj"
    /\ {"plan", "actions"} \subseteq DOMAIN t[1].v.m
    /\ t[1].v.m.plan.k # "list"
    /\ t[1].v.m.actions.k = "list"
    /\ \A i \in 1..Len(t[1].v.m.actions.items) :
           t[1].v.m.actions.items[i].k = "obj"

\* C20: shape detection applies a rule only when its key holds the stated
\* type: a parsed object whose `plan` is not a list and which has an
\* `actions` list is handled by the `actions` rule, one step per action in
\* order.  Stated for a call that parses the response as JSON.
C20_ActionsRuleWhenPlanIsNoList ==
    (AnsweredWithText /\ UsesSchema(loaded, call.probe)
     /\ IsActionsWithBadPlanDoc(AnswerText)) =>
        LET actions == AnswerText[1].v.m.actions.items
        IN  /\ "error" \notin DOMAIN outcome.value
            /\ outcome.value.plan.k = "list"
            /\ Len(outcome.value.plan.items) = Len(actions)
            /\ \A i \in 1..Len(actions) :
                   /\ outcome.value.plan.items[i].m.tool = actions[i].m.tool
                   /\ outcome.value.plan.items[i].m.arguments =
                          actions[i].m.arguments

-----------------------------------------------------------------------------
(* Claims about the shapes of a parsed response *)

\* f'action{i}'
ActionKey(i) == CASE i = 1 -> "action1" [] i = 2 -> "action2" [] OTHER -> "action3"

\* the response is one JSON object of the numbered legacy shape: action1 is
\* present, plan and actions are not, and every actionN present is an object
\* that names a tool
IsNumberedDoc(t) ==
    /\ IsBareDoc(t)
    /\ t[1].v.k = "obj"
    /\ "action1" \in DOMAIN t[1].v.m
    /\ {"plan", "actions"} \cap DOMAIN t[1].v.m = {}
    /\ \A i \in 1..3 :
           ActionKey(i) \in DOMAIN t[1].v.m =>
               /\ t[1].v.m[ActionKey(i)].k = "obj"
               /\ "tool" \in DOMAIN t[1].v.m[ActionKey(i)].m
               /\ Truthy(t[1].v.m[ActionKey(i)].m.tool)

\* the number of actions before the first missing actionN
LeadingActions(m) ==
    SetMax({n \in 0..3 : \A i \in 1..n : ActionKey(i) \in DOMAIN m})

\* C21: for the numbered legacy shape the steps come from action1, action2,
\* action3 in numeric order and the conversion stops at the first missing
\* actionN; step N has why = 'Step N from legacy format'.  Stated for a call
\* that parses the response as JSON.
C21_StopsAtFirstMissing ==
    (AnsweredWithText /\ UsesSchema(loaded, call.probe)
     /\ IsNumberedDoc(AnswerText)) =>
        LET m == AnswerText[1].v.m
            n == LeadingActions(m)
        IN  /\ outcome.value.plan.k = "list"
            /\ Len(outcome.value.plan.items) = n
            /\ \A i \in 1..n :
                   outcome.value.plan.items[i] =
                       Step(m[ActionKey(i)].m.tool,
                            Get(m[ActionKey(i)].m, "arguments", JObj(EmptyDict)),
                            StepWhy(i))

\* the response is one bare JSON list of objects, each naming a tool under
\* tool, name or function and carrying arguments
IsBareListDoc(t) ==
    /\ IsBareDoc(t)
    /\ t[1].v.k = "list"
    /\ t[1].v.items # <<>>
    /\ \A i \in 1..Len(t[1].v.items) :
           /\ t[1].v.items[i].k = "obj"
           /\ {"tool", "name", "function"} \cap DOMAIN t[1].v.items[i].m # {}
           /\ "arguments" \in DOMAIN t[1].v.items[i].m
           /\ t[1].v.items[i].m.arguments.k = "obj"

\* the tool an element of a bare list names
NamedTool(m) ==
    IF "tool" \in DOMAIN m THEN m.tool
    ELSE IF "name" \in DOMAIN m THEN m.name ELSE m.function

\* an arguments object without the entries whose value is null or "null"
WithoutNulls(args) ==
    JObj([key \in {x \in DOMAIN args.m :
                      args.m[x] # JNull /\ args.m[x] # JText("null")} |->
              args.m[key]])

\* C22: a response that parses to a bare list of {tool|name|function,
\* arguments} objects yields one step per element, in list order, with the
\* null and "null" argument entries removed.  Stated for a call that parses
\* the response as JSON.
C22_BareListOfSteps ==
    (AnsweredWithText /\ UsesSchema(loaded, call.probe)
     /\ IsBareListDoc(AnswerText)) =>
        LET elements == AnswerText[1].v.items
        IN  /\ outcome.value.plan.k = "list"
            /\ Len(outcome.value.plan.items) = Len(elements)
            /\ \A i \in 1..Len(elements) :
                   /\ outcome.value.plan.items[i].m.tool =
                          NamedTool(elements[i].m)
                   /\ outcome.value.plan.items[i].m.arguments =
                          WithoutNulls(elements[i].m.arguments)

\* the response is one JSON object of no recognised shape: it has none of
\* plan, actions, action1 and tools
IsUnrecognizedDoc(t) ==
    /\ IsBareDoc(t)
    /\ t[1].v.k = "obj"
    /\ "m" \in DOMAIN t[1].v
    /\ {"plan", "actions", "action1", "tools"} \cap DOMAIN t[1].v.m = {}

\* C23: a response that parses as JSON but matches no recognised shape
\* returns {plan: [], confidence: 0.0, error: 'Unrecognized LLM response
\* format'}.  Stated for a call that parses the response as JSON.
C23_UnrecognizedIsError ==
    (AnsweredWithText /\ UsesSchema(loaded, call.probe)
     /\ IsUnrecognizedDoc(AnswerText)) =>
        /\ outcome.value.plan = JList(<<>>)
        /\ outcome.value.confidence = JNum(0)
        /\ "error" \in DOMAIN outcome.value
        /\ outcome.value.error = [msg |-> "Unrecognized LLM response format"]

\* the text is prose around one JSON object: words, and one document that is
\* an object
IsProseAroundObject(t) ==
    /\ Len(t) > 1
    /\ \E i \in 1..Len(t) :
           /\ t[i].tk = "doc"
           /\ t[i].v.k = "obj"
           /\ \A j \in 1..Len(t) : j # i => t[j].tk = "word"

\* that object
SurroundedObject(t) == t[CHOOSE i \in 1..Len(t) : t[i].tk = "doc"].v

\* C24: a response that is prose around one JSON object yields the same Plan
\* (steps, confidence, error presence) as that JSON object alone.
C24_ProseAroundObject ==
    (AnsweredWithText /\ IsProseAroundObject(AnswerText)) =>
        SamePlan(outcome.value,
                 HandleAnswer(Http(200,
                                   TextBody(Bare(SurroundedObject(AnswerText)))),
                              UsesSchema(loaded, call.probe), CallToolNames))

\* the response is one JSON object with a `plan` list whose confidence is
\* absent or no number
IsPlanDocWithoutNumber(t) ==
    /\ IsBareDoc(t)
    /\ t[1].v.k = "obj"
    /\ "plan" \in DOMAIN t[1].v.m
    /\ t[1].v.m.plan.k = "list"
    /\ \/ "confidence" \notin DOMAIN t[1].v.m
       \/ t[1].v.m.confidence.k # "num"

\* C25: a canonical plan object whose confidence is absent or not numeric
\* returns confidence 0.0.  Stated for a call that parses the response as
\* JSON.
C25_ConfidenceDefaultsToZero ==
    (AnsweredWithText /\ UsesSchema(loaded, call.probe)
     /\ IsPlanDocWithoutNumber(AnswerText)) =>
        outcome.value.confidence = JNum(0)

-----------------------------------------------------------------------------
(* The synthesized step schema under JSON-Schema semantics *)

\* JSON-Schema `type`: the value is of the named type (an integer is a
\* number without a fractional part; numbers are kept in tenths)
IsOfType(type, v) ==
    CASE type = "string" -> v.k = "str"
      [] type = "integer" -> v.k = "num" /\ v.n % 10 = 0
      [] type = "number" -> v.k = "num"
      [] type = "boolean" -> v.k = "bool"
      [] type = "array" -> v.k = "list"
      [] type = "object" -> v.k = "obj"
      [] OTHER -> FALSE

\* JSON-Schema validation of args against one {type: object, properties,
\* required} entry: every required name is present and every present
\* property is of its declared type; other names are allowed
Accepts(entry, args) ==
    /\ args.k = "obj"
    /\ \A i \in 1..Len(entry.required) : entry.required[i] \in DOMAIN args.m
    /\ \A i \in 1..Len(entry.properties) :
           (/\ entry.properties[i].name \in DOMAIN args.m
            /\ "type" \in DOMAIN entry.properties[i].schema) =>
               IsOfType(entry.properties[i].schema.type,
                        args.m[entry.properties[i].name])

\* JSON-Schema oneOf: exactly one entry accepts args
AcceptedByOneOf(one_of, args) ==
    Cardinality({j \in 1..Len(one_of) : Accepts(one_of[j], args)}) = 1

\* arguments objects a plan step may carry
ArgumentObjects ==
    {ArgsA, ArgsB, JObj(EmptyDict), JObj([expression |-> JText("1 + 1")]),
     JObj([x |-> JText("v"), flag |-> JText("on")]),
     JObj([a |-> JText("v")])}

\* C26: for a non-empty list of tools with unique names, an arguments object
\* that satisfies a tool's own argument schema is accepted by the `arguments`
\* sub-schema of the synthesized step schema under oneOf semantics.
C26_OwnArgumentsAccepted ==
    (SchemaReturned /\ call.available_tools # <<>>
     /\ UniqueNames(call.available_tools)) =>
        LET one_of ==
                outcome.value.properties.plan.items.properties.arguments.oneOf
        IN  \A i \in 1..Len(one_of) : \A args \in ArgumentObjects :
                Accepts(one_of[i], args) => AcceptedByOneOf(one_of, args)

-----------------------------------------------------------------------------
(* GenericMCPServer.execute_tool (src/mcpweaver/generic_mcp_server).  The
   server's tools are in `config`, the call's tool name and arguments in
   `call`, the runs of the tool's function body in `sent`, in order, and what
   the call returns or raises in `outcome`.  The server's ConversionManager
   has no conversions enabled: convert_arguments and serialize_value return
   their argument. *)

\* a tool's function: whether str(type(func)) shows a built-in, its
\* parameters in order, each [name, required], and what its body does when
\* it runs: "returns", or the exception it raises
Func(is_builtin, params, body) ==
    [is_builtin |-> is_builtin, params |-> params, body |-> body]

\* func(**arguments) after `runs` runs of the body: a TypeError when the
\* keywords do not bind to the parameters (the body does not run), otherwise
\* one more run of the body and what it returns or raises
Invoke(func, arguments, runs) ==
    IF \/ \E key \in DOMAIN arguments.m :
              \A i \in 1..Len(func.params) : func.params[i].name # key
       \/ \E i \in 1..Len(func.params) :
              func.params[i].required /\ func.params[i].name \notin DOMAIN arguments.m
    THEN [runs |-> runs, res |-> Raise("TypeError")]
    ELSE [runs |-> Append(runs, arguments),
          res |-> IF func.body = "returns" THEN Ok(JText("result"))
                  ELSE Raise(func.body)]

\* required_params: the parameters without a default
required_params(func) == SelectSeq(func.params, LAMBDA p : p.required)

\* execute_tool(tool_name, arguments): the runs of the function body and
\* what the call returns or raises
execute_tool(tools, tool_name, arguments) ==
    IF tool_name \notin DOMAIN tools
    THEN [runs |-> <<>>, res |-> Raise("ValueError")]
    ELSE LET func == tools[tool_name]
         IN  IF func.is_builtin
             THEN Invoke(func, arguments, <<>>)
             ELSE LET inspected ==
                          IF required_params(func) # <<>> /\ ~Truthy(arguments)
                          THEN [runs |-> <<>>, res |-> Raise("ValueError")]
                          ELSE Invoke(func, arguments, <<>>)
                  IN  \* except ValueError: the direct call
                      IF inspected.res = Raise("ValueError")
                      THEN Invoke(func, arguments, inspected.runs)
                      ELSE inspected

\* parameter lists: none, one required, one required and one optional
ParamLists ==
    {<<>>, <<[name |-> "a", required |-> TRUE]>>,
     <<[name |-> "a", required |-> TRUE], [name |-> "axis", required |-> FALSE]>>}

\* the functions a server's tool may wrap
Funcs ==
    {Func(b, ps, body) : b \in BOOLEAN, ps \in ParamLists,
                         body \in {"returns", "ValueError", "KeyError"}}

\* the arguments mappings of a tools/call request
ToolArguments ==
    {JObj(EmptyDict), ArgsA, ArgsB, JObj([b |-> JNum(10)])}

\* a server with one tool, and one tools/call request
ServerInit ==
    /\ config \in {[tools |-> [mean |-> f]] : f \in Funcs}
    /\ loaded = config
    /\ pc = "idle"
    /\ call \in {[tool_name |-> n, arguments |-> args] :
                    n \in {"mean", "std"}, args \in ToolArguments}
    /\ sent = <<>>
    /\ outcome = NoOutcome

\* server.execute_tool(tool_name, arguments)
ExecuteTool ==
    /\ pc = "idle"
    /\ pc' = "returned"
    /\ LET done == execute_tool(config.tools, call.tool_name, call.arguments)
       IN  /\ sent' = done.runs
           /\ outcome' = IF done.res.ok THEN Returned(done.res.v)
                         ELSE Raised(done.res.exc)
    /\ UNCHANGED <<config, loaded, call>>

ServerNext == ExecuteTool

ServerSpec == ServerInit /\ [][ServerNext]_vars

\* C28: one call of execute_tool runs the tool's function at most once,
\* also when the function raises and when required arguments are missing.
C28_AtMostOneInvocation ==
    pc = "returned" => Len(sent) <= 1

-----------------------------------------------------------------------------
(* LLMClient (src/mcpweaver/llm_client): process_query asks the model for a
   plan, executes the selected tools on the MCP server and builds the
   response.  A dict whose insertion order matters (tool results, the
   arguments of the tools and of one tool, summary_logic) is a sequence of
   [name, value] entries; tool names are opaque strings.  The client's
   configuration has no argument_extraction rules. *)

\* one item of a dict
Entry(name, value) == [name |-> name, value |-> value]
\* d.keys()
Keys(d) == {d[i].name : i \in 1..Len(d)}
\* d[key]
Item(d, key) == d[CHOOSE i \in 1..Len(d) : d[i].name = key].value
\* d.get(key, default)
DictGet(d, key, default) == IF key \in Keys(d) THEN Item(d, key) ELSE default
\* d[key] = value: a known key keeps its place, a new key comes last
SetItem(d, key, value) ==
    IF key \in Keys(d)
    THEN [i \in 1..Len(d) |-> IF d[i].name = key THEN Entry(key, value) ELSE d[i]]
    ELSE Append(d, Entry(key, value))

\* a JSON object (a dict) with its items in order
JDict(entries) == [k |-> "obj", entries |-> entries]

\* a str made of a fixed prefix and the text that follows it
PrefixStr(prefix, rest) == [k |-> "str", t |-> prefix, rest |-> rest]
\* isinstance(v, str) and v.startswith(prefix)
StartsWith(v, prefix) == v.k = "str" /\ "rest" \in DOMAIN v /\ v.t = prefix

\* "USE_OUTPUT_FROM_<source_tool>"
Placeholder(source_tool) == PrefixStr("USE_OUTPUT_FROM_", source_tool)
\* f"ERROR: {e}", the message e a sequence of texts
ErrorResult(e) == PrefixStr("ERROR: ", e)
\* isinstance(previous_result, str) and previous_result.startswith("ERROR:")
IsErrorResult(v) == StartsWith(v, "ERROR: ")

\* call_mcp_tool(tool_name, arguments) on a server on which the tools in
\* `failing` fail: result["result"], or the exception it raises
call_mcp_tool(tool_name, arguments, failing) ==
    IF tool_name \in failing
    THEN Raise(<<"Error calling tool ", tool_name, ": HTTP error: 500">>)
    ELSE Ok(JDict(<<Entry("output", JText(tool_name))>>))

\* extract_arguments_from_results(tool_name, previous_results) without
\* rules for the tool: {}
extract_arguments_from_results(tool_name, previous_results) == <<>>

\* the loop over tool_args.items() from item k on: the placeholders whose
\* source has a result are replaced in place; the loop breaks at the first
\* source that failed
RECURSIVE ReplacePlaceholders(_, _, _)
ReplacePlaceholders(tool_args, k, results) ==
    IF k > Len(tool_args)
    THEN [tool_args |-> tool_args, failed |-> FALSE, source_tool |-> ""]
    ELSE LET arg_value == tool_args[k].value
         IN  IF StartsWith(arg_value, "USE_OUTPUT_FROM_")
                /\ arg_value.rest \in Keys(results)
             THEN LET previous_result == Item(results, arg_value.rest)
                  IN  IF IsErrorResult(previous_result)
                      THEN [tool_args |-> tool_args, failed |-> TRUE,
                            source_tool |-> arg_value.rest]
                      ELSE ReplacePlaceholders(
                               SetItem(tool_args, tool_args[k].name,
                                       previous_result),
                               k + 1, results)
             ELSE ReplacePlaceholders(tool_args, k + 1, results)

\* the body of the loop `for tool_name in sequence`, on the loop's state:
\* the caller's arguments dict (its tool_args are changed in place), the
\* results so far and the requests sent to the server so far
ExecuteOne(tool_name, st, failing) ==
    LET given == DictGet(st.arguments, tool_name, <<>>)
        replaced == ReplacePlaceholders(given, 1, st.results)
        \* results[tool_name] = "ERROR: Skipped ..." and break: the break
        \* leaves the loop over the items only
        skipped_results ==
            IF replaced.failed
            THEN SetItem(st.results, tool_name,
                         ErrorResult(<<"Skipped due to failure of ",
                                       replaced.source_tool>>))
            ELSE st.results
        tool_args == IF replaced.tool_args = <<>>
                     THEN extract_arguments_from_results(tool_name, st.results)
                     ELSE replaced.tool_args
        result == call_mcp_tool(tool_name, tool_args, failing)
    IN  [arguments |-> IF tool_name \in Keys(st.arguments)
                       THEN SetItem(st.arguments, tool_name, replaced.tool_args)
                       ELSE st.arguments,
         results |-> SetItem(skipped_results, tool_name,
                             IF result.ok THEN result.v
                             ELSE ErrorResult(result.exc)),
         calls |-> Append(st.calls, [name |-> tool_name, arguments |-> tool_args])]

\* execute_sequence_with_arguments(sequence, arguments): the loop's state
\* after the tools from position i on
RECURSIVE execute_sequence_with_arguments(_, _, _, _)
execute_sequence_with_arguments(sequence, i, st, failing) ==
    IF i > Len(sequence) THEN st
    ELSE execute_sequence_with_arguments(sequence, i + 1,
                                         ExecuteOne(sequence[i], st, failing),
                                         failing)

\* tool_meta_keywords: 'tools available', 'what tools', 'available tools',
\* 'list tools', 'show tools'
tool_meta_keywords ==
    {<<116, 111, 111, 108, 115, 32, 97, 118, 97, 105, 108, 97, 98, 108, 101>>,
     <<119, 104, 97, 116, 32, 116, 111, 111, 108, 115>>,
     <<97, 118, 97, 105, 108, 97, 98, 108, 101, 32, 116, 111, 111, 108, 115>>,
     <<108, 105, 115, 116, 32, 116, 111, 111, 108, 115>>,
     <<115, 104, 111, 119, 32, 116, 111, 111, 108, 115>>}

\* any(keyword in query.lower() for keyword in tool_meta_keywords)
IsMetaQuestion(query) ==
    \E keyword \in tool_meta_keywords : IsSubstr(keyword, LowerStr(query))

\* bool(v) of a result
Bool(v) ==
    IF v.k = "obj" /\ "entries" \in DOMAIN v THEN v.entries # <<>> ELSE Truthy(v)

\* the steps of the plan that name a tool: step.get('tool') is truthy
NamedSteps(plan) ==
    SelectSeq(plan, LAMBDA step : Bool(DictGet(step.entries, "tool", JNull)))

\* {step.get('tool'): step.get('arguments', {}) for step in plan if
\* step.get('tool')}: a later step of the same tool replaces the value
RECURSIVE ArgumentsByTool(_, _)
ArgumentsByTool(steps, arguments) ==
    IF steps = <<>> THEN arguments
    ELSE ArgumentsByTool(
             Tail(steps),
             SetItem(arguments, Head(steps).entries[
                         CHOOSE i \in 1..Len(Head(steps).entries) :
                             Head(steps).entries[i].name = "tool"].value.t,
                     DictGet(Head(steps).entries, "arguments", JDict(<<>>)).entries))

\* what ask_llm_what_to_do returns when it selects nothing
NothingSelected == [selected_tools |-> <<>>, arguments |-> <<>>]

\* ask_llm_what_to_do, from the model's answer on: (selected_tools,
\* arguments), or ([], {}) when the answer is no 200, cannot be parsed or
\* raises while it is read
ask_llm_what_to_do(answer) ==
    IF answer.kind = "raise" \/ answer.status # 200 THEN NothingSelected
    ELSE LET llm_response == ResponseText(answer.body)
             llm_json == IF llm_response.ok THEN JsonLoads(llm_response.v)
                         ELSE llm_response
         IN  IF ~llm_json.ok \/ llm_json.v.k # "obj" THEN NothingSelected
             ELSE IF "plan" \in Keys(llm_json.v.entries)
             THEN LET plan == Item(llm_json.v.entries, "plan")
                  IN  IF plan.k # "list"
                         \/ \E i \in 1..Len(plan.items) : plan.items[i].k # "obj"
                      THEN NothingSelected
                      ELSE [selected_tools |->
                                [i \in 1..Len(NamedSteps(plan.items)) |->
                                    Item(NamedSteps(plan.items)[i].entries,
                                         "tool").t],
                            arguments |->
                                ArgumentsByTool(NamedSteps(plan.items), <<>>)]
             ELSE LET tools == DictGet(llm_json.v.entries, "tools", JList(<<>>))
                      arguments ==
                          DictGet(llm_json.v.entries, "arguments", JDict(<<>>))
                  IN  [selected_tools |->
                           [i \in 1..Len(tools.items) |-> tools.items[i].t],
                       arguments |->
                           [i \in 1..Len(arguments.entries) |->
                               Entry(arguments.entries[i].name,
                                     arguments.entries[i].value.entries)]]

\* one line of the response
Line(part, of, text) == [part |-> part, of |-> of, text |-> text]

\* the line the summary gives a tool: the success or the failure message
SummaryLine(tool_name, summary_config, result) ==
    LET success ==
            IF ~(IsErrorResult(result) /\ result.rest = <<>>)
            THEN Bool(result) ELSE FALSE
    IN  IF success
        THEN Line("success_message", tool_name,
                  Get(summary_config, "success_message",
                      "{tool_name} completed successfully"))
        ELSE Line("failure_message", tool_name,
                  Get(summary_config, "failure_message", "{tool_name} failed"))

\* generate_response(query, tool_results): response_parts; the response is
\* its lines joined by newlines
generate_response(cfg, tool_results) ==
    LET response_format == Get(cfg, "response_format", EmptyDict)
        summary_logic == Get(cfg, "summary_logic", <<>>)
        next_steps == Get(cfg, "next_steps", <<>>)
        listed == SelectSeq(summary_logic,
                            LAMBDA e : e.name \in Keys(tool_results))
    IN  (IF Get(response_format, "explain_reasoning", FALSE)
         THEN <<Line("reasoning_header", "", "My Reasoning:"),
                Line("reasoning", "",
                     "I used the following tools to answer your query:")>>
              \o [i \in 1..Len(tool_results) |->
                     Line("used", tool_results[i].name, "- {tool_name}")]
              \o <<Line("blank", "", "")>>
         ELSE <<>>)
        \o (IF Get(response_format, "include_tool_calls", FALSE)
            THEN <<Line("tool_results_header", "", "Tool Results:")>>
                 \o [i \in 1..Len(tool_results) |->
                        Line("result", tool_results[i].name,
                             tool_results[i].value)]
                 \o <<Line("blank", "", "")>>
            ELSE <<>>)
        \o (IF Get(response_format, "provide_summary", FALSE)
            THEN <<Line("summary_header", "", "Summary:")>>
                 \o [i \in 1..Len(listed) |->
                        SummaryLine(listed[i].name, listed[i].value,
                                    Item(tool_results, listed[i].name))]
                 \o <<Line("blank", "", "")>>
            ELSE <<>>)
        \o (IF Get(response_format, "suggest_next_steps", FALSE)
            THEN <<Line("next_steps_header", "", "Next Steps:")>>
                 \o [i \in 1..Len(next_steps) |->
                        Line("next_step", "", next_steps[i])]
            ELSE <<>>)

\* generate_tools_info_response(): the list of the server's tools
generate_tools_info_response == <<Line("tools_info_header", "", "Available Tools:")>>

-----------------------------------------------------------------------------
(* The clients, the model's answers and the servers of process_query *)

\* what the summary says of the tools: messages for load, defaults for mean
SummaryLogic ==
    <<Entry("load", [success_message |-> "Data loaded",
                     failure_message |-> "Loading failed"]),
      Entry("mean", EmptyDict)>>

\* client configurations: which parts the response has
ClientConfigs ==
    {[response_format |->
          [explain_reasoning |-> others, include_tool_calls |-> others,
           provide_summary |-> summary, suggest_next_steps |-> others],
      summary_logic |-> SummaryLogic,
      next_steps |-> <<"Ask for another statistic">>] :
         others \in BOOLEAN, summary \in BOOLEAN}

\* a plan step {tool, arguments, why}
PlanStep(tool, arguments) ==
    JDict(<<Entry("tool", JText(tool)), Entry("arguments", JDict(arguments)),
            Entry("why", JText("because"))>>)

\* the steps a model's plan is made of; the last one names no tool
ClientSteps ==
    {PlanStep("load", <<Entry("path", JText("data.csv"))>>),
     PlanStep("mean", <<Entry("data", Placeholder("load"))>>),
     PlanStep("mean", <<Entry("data", JList(<<JNum(10), JNum(20)>>))>>),
     PlanStep("mean", <<Entry("data", JList(<<JNum(30)>>)),
                        Entry("axis", JNum(0))>>),
     JDict(<<Entry("why", JText("nothing to do"))>>)}

\* the JSON documents the model answers with: step-based plans, the legacy
\* {tools, arguments} shape, and documents that select nothing
ClientDocs ==
    {JDict(<<Entry("plan", JList(p)), Entry("confidence", JNum(9))>>) :
         p \in SeqsUpTo(ClientSteps, MaxSteps)}
    \cup {JDict(<<Entry("tools", JList(<<JText("load"), JText("mean")>>)),
                  Entry("arguments",
                        JDict(<<Entry("load",
                                      JDict(<<Entry("path", JText("data.csv"))>>)),
                                Entry("mean",
                                      JDict(<<Entry("data",
                                                    Placeholder("load"))>>))>>))>>),
          JDict(<<Entry("answer", JText("42"))>>),
          JList(<<>>)}

\* the model's answers to the request of ask_llm_what_to_do
ClientAnswers ==
    {Http(200, TextBody(Bare(v))) : v \in ClientDocs}
    \cup {Http(200, TextBody(<<Word(WordUse), Word(WordThe)>>)),
          Http(500, NotJsonBody), Transport("Timeout")}

\* queries: "mean of data", "what tools can I use"
ClientQueries ==
    {<<109, 101, 97, 110, 32, 111, 102, 32, 100, 97, 116, 97>>,
     <<87, 104, 97, 116, 32, 116, 111, 111, 108, 115, 32, 99, 97, 110, 32, 73, 32, 117, 115, 101>>}

\* a client, a query, what the model will answer and the tools that fail on
\* the server
ClientInit ==
    /\ config \in ClientConfigs
    /\ loaded = config
    /\ pc = "idle"
    /\ call \in {[query |-> q, answer |-> a, failing |-> f] :
                    q \in ClientQueries, a \in ClientAnswers,
                    f \in SUBSET {"load", "mean"}}
    /\ sent = <<>>
    /\ outcome = NoOutcome

\* process_query, lines 823-828: a question about the tools is answered
\* with the list of tools
AnswerMetaQuestion ==
    /\ pc = "idle"
    /\ IsMetaQuestion(call.query)
    /\ pc' = "returned"
    /\ outcome' = Returned(generate_tools_info_response)
    /\ UNCHANGED <<config, loaded, call, sent>>

\* process_query, line 831: selected_tools, arguments =
\* self.ask_llm_what_to_do(query)
AskLlmWhatToDo ==
    /\ pc = "idle"
    /\ ~IsMetaQuestion(call.query)
    /\ pc' = "asked"
    /\ call' = [query |-> call.query, answer |-> call.answer,
                failing |-> call.failing,
                selected_tools |-> ask_llm_what_to_do(call.answer).selected_tools,
                arguments |-> ask_llm_what_to_do(call.answer).arguments]
    /\ UNCHANGED <<config, loaded, sent, outcome>>

\* process_query, lines 833-839: the selected tools are executed; `sent` is
\* the requests the server received, in order
ExecuteSequenceWithArguments ==
    /\ pc = "asked"
    /\ call.selected_tools # <<>>
    /\ pc' = "executed"
    /\ LET done == execute_sequence_with_arguments(
                       call.selected_tools, 1,
                       [arguments |-> call.arguments, results |-> <<>>,
                        calls |-> <<>>],
                       call.failing)
       IN  /\ sent' = done.calls
           /\ outcome' = [kind |-> "results", results |-> done.results]
    /\ UNCHANGED <<config, loaded, call>>

\* process_query, lines 841-851: nothing was selected
ShowAvailableTools ==
    /\ pc = "asked"
    /\ call.selected_tools = <<>>
    /\ pc' = "returned"
    /\ outcome' = Returned(generate_tools_info_response)
    /\ UNCHANGED <<config, loaded, call, sent>>

\* process_query, line 840: return self.generate_response(query, results)
GenerateResponse ==
    /\ pc = "executed"
    /\ pc' = "returned"
    /\ outcome' = [kind |-> "returned",
                   value |-> generate_response(config, outcome.results),
                   results |-> outcome.results]
    /\ UNCHANGED <<config, loaded, call, sent>>

ClientNext ==
    \/ AnswerMetaQuestion
    \/ AskLlmWhatToDo
    \/ ExecuteSequenceWithArguments
    \/ ShowAvailableTools
    \/ GenerateResponse

ClientSpec == ClientInit /\ [][ClientNext]_vars

\* the tools of the sequence are distinct
DistinctTools(sequence) ==
    \A i, j \in 1..Len(sequence) : sequence[i] = sequence[j] => i = j

\* C27: a tool with an argument USE_OUTPUT_FROM_<X>, where X ran earlier in
\* the sequence and its recorded result is an 'ERROR:' string, is skipped:
\* the server receives no request for it and its recorded result is
\* 'ERROR: Skipped due to failure of X'.
C27_SkippedAfterFailure ==
    (pc = "executed" /\ DistinctTools(call.selected_tools)) =>
        \A j \in 1..Len(call.selected_tools) :
            LET tool_name == call.selected_tools[j]
                tool_args == DictGet(call.arguments, tool_name, <<>>)
            IN  \A k \in 1..Len(tool_args) : \A i \in 1..(j - 1) :
                    (/\ tool_args[k].value = Placeholder(call.selected_tools[i])
                     /\ IsErrorResult(Item(outcome.results,
                                           call.selected_tools[i]))) =>
                        /\ \A c \in 1..Len(sent) : sent[c].name # tool_name
                        /\ Item(outcome.results, tool_name) =
                               ErrorResult(<<"Skipped due to failure of ",
                                             call.selected_tools[i]>>)

\* the model answered 200 with one JSON object that has a `plan` list
AnsweredWithPlan ==
    /\ call.answer.kind = "http"
    /\ call.answer.status = 200
    /\ call.answer.body.b = "json"
    /\ IsBareDoc(call.answer.body.v.m.response.raw)
    /\ call.answer.body.v.m.response.raw[1].v.k = "obj"
    /\ "plan" \in Keys(call.answer.body.v.m.response.raw[1].v.entries)

\* the steps of that plan
AnsweredPlan ==
    Item(call.answer.body.v.m.response.raw[1].v.entries, "plan").items

\* a step that names a tool and gives it literal arguments: no placeholder
IsLiteralStep(step) ==
    /\ "tool" \in Keys(step.entries)
    /\ "arguments" \in Keys(step.entries)
    /\ \A k \in 1..Len(Item(step.entries, "arguments").entries) :
           ~StartsWith(Item(step.entries, "arguments").entries[k].value,
                       "USE_OUTPUT_FROM_")

\* C29: for a step-based plan, every step is executed in plan order with the
\* arguments of that same step, also when a tool appears in more than one
\* step with different arguments.
C29_StepsExecutedAsPlanned ==
    (pc = "executed" /\ AnsweredWithPlan
     /\ \A i \in 1..Len(AnsweredPlan) : IsLiteralStep(AnsweredPlan[i])) =>
        /\ Len(sent) = Len(AnsweredPlan)
        /\ \A i \in 1..Len(AnsweredPlan) :
               /\ sent[i].name = Item(AnsweredPlan[i].entries, "tool").t
               /\ sent[i].arguments =
                      Item(AnsweredPlan[i].entries, "arguments").entries

\* C30: with provide_summary enabled, a tool listed in summary_logic whose
\* recorded result is an 'ERROR: <message>' string is reported with its
\* failure message and never with its success message.
C30_ErrorsReportedAsFailures ==
    (pc = "returned" /\ "results" \in DOMAIN outcome
     /\ config.response_format.provide_summary) =>
        \A i \in 1..Len(config.summary_logic) :
            LET tool_name == config.summary_logic[i].name
            IN  (/\ tool_name \in Keys(outcome.results)
                 /\ IsErrorResult(Item(outcome.results, tool_name))) =>
                    /\ \E l \in 1..Len(outcome.value) :
                           /\ outcome.value[l].part = "failure_message"
                           /\ outcome.value[l].of = tool_name
                    /\ \A l \in 1..Len(outcome.value) :
                           ~(/\ outcome.value[l].part = "success_message"
                             /\ outcome.value[l].of = tool_name)

====
